---- MODULE Spec2Model ----
(***************************************************************************)
(* A model of the Shade SDK core: the commitment scheme's amount buckets,  *)
(* the note lifecycle state machine, the client-side Merkle proof          *)
(* verification and the proof-input assembly.                              *)
(***************************************************************************)
EXTENDS Integers, Sequences, FiniteSets, TLC

(***************************************************************************)
(* bigint.                                                                 *)
(* A JavaScript bigint is modelled as a record [neg, mag]: a sign and a    *)
(* magnitude, the magnitude a sequence of base-10000 limbs, least          *)
(* significant first, without leading zero limbs (zero is the empty        *)
(* sequence and is never negative).  TLC's own integers are 32 bits wide   *)
(* and cannot hold 2^31, the largest bucket, nor 2^64 - 1, MAX_AMOUNT.     *)
(***************************************************************************)
LimbBase == 10 * 1000

RECURSIVE MagNorm(_)
MagNorm(m) ==
  IF m = <<>> THEN <<>>
  ELSE IF m[Len(m)] = 0 THEN MagNorm(SubSeq(m, 1, Len(m) - 1))
  ELSE m

RECURSIVE MagCmpFrom(_, _, _)
MagCmpFrom(a, b, i) ==
  IF i = 0 THEN 0
  ELSE IF a[i] < b[i] THEN -1
  ELSE IF a[i] > b[i] THEN 1
  ELSE MagCmpFrom(a, b, i - 1)

\* -1, 0, 1 as a < b, a = b, a > b (normalised magnitudes)
MagCmp(a, b) ==
  IF Len(a) < Len(b) THEN -1
  ELSE IF Len(a) > Len(b) THEN 1
  ELSE MagCmpFrom(a, b, Len(a))

RECURSIVE MagAddC(_, _, _)
MagAddC(a, b, carry) ==
  IF a = <<>> /\ b = <<>> THEN (IF carry = 0 THEN <<>> ELSE <<carry>>)
  ELSE LET x == IF a = <<>> THEN 0 ELSE Head(a)
           y == IF b = <<>> THEN 0 ELSE Head(b)
           s == x + y + carry
           ra == IF a = <<>> THEN <<>> ELSE Tail(a)
           rb == IF b = <<>> THEN <<>> ELSE Tail(b)
       IN <<s % LimbBase>> \o MagAddC(ra, rb, s \div LimbBase)

MagAdd(a, b) == MagAddC(a, b, 0)

RECURSIVE MagSubB(_, _, _)
MagSubB(a, b, borrow) ==
  IF a = <<>> THEN <<>>
  ELSE LET y == IF b = <<>> THEN 0 ELSE Head(b)
           d == Head(a) - y - borrow
           rb == IF b = <<>> THEN <<>> ELSE Tail(b)
       IN IF d < 0 THEN <<d + LimbBase>> \o MagSubB(Tail(a), rb, 1)
          ELSE <<d>> \o MagSubB(Tail(a), rb, 0)

\* a - b for a >= b
MagSub(a, b) == MagNorm(MagSubB(a, b, 0))

RECURSIVE MagMulLimb(_, _, _)
MagMulLimb(a, d, carry) ==
  IF a = <<>> THEN (IF carry = 0 THEN <<>> ELSE <<carry>>)
  ELSE LET p == Head(a) * d + carry
       IN <<p % LimbBase>> \o MagMulLimb(Tail(a), d, p \div LimbBase)

RECURSIVE MagMul(_, _)
MagMul(a, b) ==
  IF a = <<>> \/ b = <<>> THEN <<>>
  ELSE MagAdd(MagNorm(MagMulLimb(a, Head(b), 0)),
              LET rest == MagMul(a, Tail(b))
              IN IF rest = <<>> THEN <<>> ELSE <<0>> \o rest)

\* the largest digit d in lo..hi with d * b <= r (bisection)
RECURSIVE MagQuotDigit(_, _, _, _)
MagQuotDigit(r, b, lo, hi) ==
  IF lo = hi THEN lo
  ELSE LET mid == (lo + hi + 1) \div 2
       IN IF MagCmp(MagNorm(MagMulLimb(b, mid, 0)), r) <= 0
          THEN MagQuotDigit(r, b, mid, hi)
          ELSE MagQuotDigit(r, b, lo, mid - 1)

\* long division of the limbs a[1..i] (most significant first) with the
\* running remainder r: <<quotient limbs, remainder>>
RECURSIVE MagLongDiv(_, _, _, _)
MagLongDiv(a, i, b, r) ==
  IF i = 0 THEN <<(<<>>), r>>
  ELSE LET r1 == MagNorm(<<a[i]>> \o r)
           d == MagQuotDigit(r1, b, 0, LimbBase - 1)
           r2 == MagSub(r1, MagNorm(MagMulLimb(b, d, 0)))
       IN \* the test makes TLC compute this step's remainder before the next
          IF MagCmp(r2, b) < 0
          THEN LET rest == MagLongDiv(a, i - 1, b, r2)
               IN <<rest[1] \o <<d>>, rest[2]>>
          ELSE <<(<<>>), (<<>>)>>

\* <<quotient, remainder>> of a by b > 0
MagDivMod(a, b) ==
  LET qr == MagLongDiv(a, Len(a), b, <<>>)
  IN <<MagNorm(qr[1]), qr[2]>>

RECURSIVE MagOfNat(_)
MagOfNat(n) ==
  IF n = 0 THEN <<>> ELSE <<n % LimbBase>> \o MagOfNat(n \div LimbBase)

\* the bigint of a (32-bit) integer literal
Big(n) ==
  IF n < 0 THEN [neg |-> TRUE, mag |-> MagOfNat(0 - n)]
  ELSE [neg |-> FALSE, mag |-> MagOfNat(n)]

MkBig(neg, mag) == [neg |-> (neg /\ mag # <<>>), mag |-> mag]

\* -1, 0, 1 as a < b, a = b, a > b
BigCmp(a, b) ==
  IF a.neg /\ ~b.neg THEN -1
  ELSE IF ~a.neg /\ b.neg THEN 1
  ELSE IF a.neg THEN MagCmp(b.mag, a.mag)
  ELSE MagCmp(a.mag, b.mag)

BigLe(a, b) == BigCmp(a, b) <= 0
BigLt(a, b) == BigCmp(a, b) < 0
BigGe(a, b) == BigCmp(a, b) >= 0
BigGt(a, b) == BigCmp(a, b) > 0

BigAdd(a, b) ==
  IF a.neg = b.neg THEN MkBig(a.neg, MagAdd(a.mag, b.mag))
  ELSE IF MagCmp(a.mag, b.mag) >= 0 THEN MkBig(a.neg, MagSub(a.mag, b.mag))
  ELSE MkBig(b.neg, MagSub(b.mag, a.mag))

BigNeg(a) == MkBig(~a.neg, a.mag)

BigSub(a, b) == BigAdd(a, BigNeg(b))

BigMul(a, b) == MkBig(a.neg # b.neg, MagMul(a.mag, b.mag))

\* bigint division truncates towards zero (b # 0)
BigDiv(a, b) == MkBig(a.neg # b.neg, MagDivMod(a.mag, b.mag)[1])

RECURSIVE BigPow2(_)
BigPow2(k) ==
  IF k = 0 THEN Big(1)
  ELSE IF k % 2 = 0 THEN LET h == BigPow2(k \div 2) IN BigMul(h, h)
  ELSE BigMul(Big(2), BigPow2(k - 1))

\* a bigint literal written in groups of four decimal digits, most
\* significant group first: BigLit(<<21, 4748, 3648>>) is 2147483648n
RECURSIVE SeqReverse(_)
SeqReverse(q) == IF q = <<>> THEN <<>> ELSE SeqReverse(Tail(q)) \o <<Head(q)>>

BigLit(groups) == [neg |-> FALSE, mag |-> MagNorm(SeqReverse(groups))]

(***************************************************************************)
(* domain/constants: SHADE_DOMAIN                                          *)
(***************************************************************************)
AMOUNT_BUCKETS ==
  << Big(1), Big(2), Big(4), Big(8), Big(16), Big(32), Big(64), Big(128),
     Big(256), Big(512), Big(1024), Big(2048), Big(4096), Big(8192),
     Big(16384), Big(32768), Big(65536), Big(131072), Big(262144),
     Big(524288), Big(1048576), Big(2097152), Big(4194304), Big(8388608),
     Big(16777216), Big(33554432), Big(67108864), Big(134217728),
     Big(268435456), Big(536870912), Big(1073741824),
     BigLit(<<21, 4748, 3648>>) >>

MAX_AMOUNT == BigSub(BigPow2(64), Big(1))

\* 1n << 256n
TWO_256 == BigPow2(256)

(***************************************************************************)
(* The outcome of a call: a returned value or a thrown error.              *)
(***************************************************************************)
Return(v) == [threw |-> FALSE, value |-> v]
Throw(e) == [threw |-> TRUE, error |-> e]
NoCall == [threw |-> FALSE, none |-> TRUE]

\* new Error(message), and new ShadeError(code, message)
Error(message) == [name |-> "Error", code |-> 0, message |-> message]
ShadeError(code, message) == [name |-> "ShadeError", code |-> code, message |-> message]

(***************************************************************************)
(* core/commitment_builder: CommitmentBuilder.findBucket                   *)
(***************************************************************************)
\* the loop over AMOUNT_BUCKETS from index i: the index of the first bucket
\* >= amount, 0 when the loop ends without returning
RECURSIVE FirstBucketFrom(_, _)
FirstBucketFrom(i, amount) ==
  IF i > Len(AMOUNT_BUCKETS) THEN 0
  ELSE IF BigGe(AMOUNT_BUCKETS[i], amount) THEN i
  ELSE FirstBucketFrom(i + 1, amount)

FindBucketOffByOne(amount) ==
  IF BigLe(amount, Big(0)) THEN Throw(Error("Amount must be positive"))
  ELSE IF BigGt(amount, MAX_AMOUNT) THEN Throw(Error("Amount exceeds maximum"))
  ELSE LET hit == FirstBucketFrom(1, BigAdd(amount, Big(1)))
           largestBucket == AMOUNT_BUCKETS[Len(AMOUNT_BUCKETS)]
       IN IF hit # 0 THEN Return(AMOUNT_BUCKETS[hit])
          ELSE Return(BigMul(BigDiv(amount, largestBucket), largestBucket))

FindBucketQuotientOnly(amount) ==
  IF BigLe(amount, Big(0)) THEN Throw(Error("Amount must be positive"))
  ELSE IF BigGt(amount, MAX_AMOUNT) THEN Throw(Error("Amount exceeds maximum"))
  ELSE LET hit == FirstBucketFrom(1, amount)
           largestBucket == AMOUNT_BUCKETS[Len(AMOUNT_BUCKETS)]
       IN IF hit # 0 THEN Return(AMOUNT_BUCKETS[hit])
          ELSE Return(BigDiv(amount, largestBucket))

findBucket(amount) ==
  IF BigLe(amount, Big(0)) THEN Throw(Error("Amount must be positive"))
  ELSE IF BigGt(amount, MAX_AMOUNT) THEN Throw(Error("Amount exceeds maximum"))
  ELSE LET hit == FirstBucketFrom(1, amount)
           largestBucket == AMOUNT_BUCKETS[Len(AMOUNT_BUCKETS)]
       IN IF hit # 0 THEN Return(AMOUNT_BUCKETS[hit])
          ELSE \* round down to a multiple of the largest bucket
               Return(BigMul(BigDiv(amount, largestBucket), largestBucket))

(***************************************************************************)
(* The amounts findBucket is called with: every power of two up to 2^64    *)
(* and every multiple of the largest bucket up to MaxMultiple, each with   *)
(* its neighbours at distance <= NearDelta.  The second call of a pair     *)
(* takes its amount from 250 and the powers 2^k, with their neighbours,    *)
(* for k a multiple of ProbeStep or next to the largest bucket's 31.       *)
(***************************************************************************)
NearDelta == 1
MaxMultiple == 3
ProbeStep == 4

AmountBits == 64

Exponents == 0..AmountBits

Deltas == (0 - NearDelta)..NearDelta

Amounts ==
  {BigAdd(BigPow2(k), Big(d)) : k \in Exponents, d \in Deltas}
    \cup {BigAdd(BigMul(Big(m), AMOUNT_BUCKETS[Len(AMOUNT_BUCKETS)]), Big(d)) :
            m \in 1..MaxMultiple, d \in Deltas}
    \cup {Big(250)}

ProbeAmounts ==
  {BigAdd(BigPow2(k), Big(d)) :
     k \in {e \in Exponents : e % ProbeStep = 0 \/ e \in 30..33}, d \in Deltas}
    \cup {Big(250)}

(***************************************************************************)
(* domain/constants: PoseidonDomain, ErrorCode                             *)
(***************************************************************************)
DOMAIN_NULLIFIER == 1
DOMAIN_COMMITMENT == 2

NOTE_INVALID_STATE == 5003
VALIDATION_INVALID_INPUT == 7002
VALIDATION_INVALID_PROOF == 7003
CRYPTO_INVALID_INPUT == 1001
STORAGE_NOT_INITIALIZED == 2001

TREE_HEIGHT == 20

(***************************************************************************)
(* The hash oracle.  The Poseidon permutation is an external collaborator; *)
(* a digest is modelled as the term of its inputs, which makes the oracle  *)
(* deterministic and collision-free.  A call may also fail (the service is *)
(* unreachable); the caller of an operation chooses which call does.       *)
(***************************************************************************)
\* commitmentBuilder.hash(domain, inputs): the domain-tagged oracle
HashDomain(domain, inputs) == [poseidon |-> inputs, domain |-> domain]

\* poseidonHash(inputs) / poseidon.hash(inputs): the oracle without a tag
Poseidon(inputs) == [poseidon |-> inputs]

(***************************************************************************)
(* core/notes (state-machine variant): NoteState, Note, NoteEngine         *)
(***************************************************************************)
UNSPENT == "unspent"
PENDING_SPEND == "pending_spend"
SPENT == "spent"
RECOVERED == "recovered"
CORRUPTED == "corrupted"

NoteState == {UNSPENT, PENDING_SPEND, SPENT, RECOVERED, CORRUPTED}

NoNote == [none |-> TRUE]

\* the bucket table of calculateBucketAmount:
\* [0.1, 0.5, 1, 5, 10, 50, 100, 500, 1000].map(b => BigInt(Math.floor(b * 1e18)))
WeiBuckets ==
  << BigLit(<<10, 0, 0, 0, 0>>), BigLit(<<50, 0, 0, 0, 0>>),
     BigLit(<<100, 0, 0, 0, 0>>), BigLit(<<500, 0, 0, 0, 0>>),
     BigLit(<<1000, 0, 0, 0, 0>>), BigLit(<<5000, 0, 0, 0, 0>>),
     BigLit(<<1, 0, 0, 0, 0, 0>>), BigLit(<<5, 0, 0, 0, 0, 0>>),
     BigLit(<<10, 0, 0, 0, 0, 0>>) >>

\* amountInWei > bucket ? amountInWei - bucket : bucket - amountInWei
AbsDiff(a, b) == IF BigGt(a, b) THEN BigSub(a, b) ELSE BigSub(b, a)

\* the loop of calculateBucketAmount over buckets.slice(1), from index i
RECURSIVE ClosestBucketFrom(_, _, _, _)
ClosestBucketFrom(i, amountInWei, closest, minDiff) ==
  IF i > Len(WeiBuckets) THEN closest
  ELSE LET diff == AbsDiff(amountInWei, WeiBuckets[i])
       IN IF BigLt(diff, minDiff)
          THEN ClosestBucketFrom(i + 1, amountInWei, WeiBuckets[i], diff)
          ELSE ClosestBucketFrom(i + 1, amountInWei, closest, minDiff)

calculateBucketAmount(amount) ==
  ClosestBucketFrom(2, amount, WeiBuckets[1], AbsDiff(amount, WeiBuckets[1]))

\* the object literal createNote and recoverNote return
NewNote(secret, assetId, amount, now, state, depositBlock, depositTxHash) ==
  [ metadata |->
      [ commitment |-> HashDomain(DOMAIN_COMMITMENT, <<secret, amount, assetId>>),
        nullifier |-> HashDomain(DOMAIN_NULLIFIER, <<secret>>),
        secret |-> secret,
        assetId |-> assetId,
        amount |-> amount,
        bucketAmount |-> calculateBucketAmount(amount),
        createdAt |-> now,
        updatedAt |-> now,
        version |-> 1,
        depositBlock |-> depositBlock,
        depositTxHash |-> depositTxHash ],
    state |-> state ]

\* an absent optional field, and present ones
Undefined == [undefined |-> TRUE]
Num(n) == [number |-> n]
Str(t) == [string |-> t]

\* createNote(assetId, amount); hashOk: whether the oracle answers
createNote(secret, assetId, amount, now, hashOk) ==
  IF BigLe(amount, Big(0))
  THEN Throw(ShadeError(VALIDATION_INVALID_INPUT, "Amount must be positive"))
  ELSE IF ~hashOk THEN Throw(Error("hash failed"))
  ELSE Return(NewNote(secret, assetId, amount, now, UNSPENT, Undefined, Undefined))

\* recoverNote(secret, assetId, amount, depositBlock, depositTxHash)
recoverNote(secret, assetId, amount, depositBlock, depositTxHash, now, hashOk) ==
  IF ~hashOk THEN Throw(Error("hash failed"))
  ELSE Return(NewNote(secret, assetId, amount, now, RECOVERED, depositBlock, depositTxHash))

(***************************************************************************)
(* A call on a note object has two effects a caller can see: its outcome   *)
(* (a returned value or a thrown error) and the object passed in as it is  *)
(* after the call.                                                         *)
(***************************************************************************)
Effect(outcome, argAfter) == [outcome |-> outcome, arg |-> argAfter]

\* { ...note, state, metadata: { ...note.metadata, updatedAt: new Date() } }
WithState(note, state, now) ==
  [note EXCEPT !.state = state, !.metadata.updatedAt = now]

InvalidState(message) == Throw(ShadeError(NOTE_INVALID_STATE, message))

PrepareForSpendingInPlace(note, now) ==
  IF note.state # UNSPENT
  THEN Effect(InvalidState("Note must be UNSPENT"), note)
  ELSE Effect(Return(WithState(note, PENDING_SPEND, now)),
              WithState(note, PENDING_SPEND, now))

prepareForSpending(note, now) ==
  IF note.state # UNSPENT
  THEN Effect(InvalidState("Note must be UNSPENT"), note)
  ELSE Effect(Return(WithState(note, PENDING_SPEND, now)), note)

MarkSpentOnlyPending(note, now) ==
  IF note.state # PENDING_SPEND
  THEN Effect(InvalidState("Note must be UNSPENT or PENDING_SPEND"), note)
  ELSE Effect(Return(WithState(note, SPENT, now)), note)

MarkSpentIdempotent(note, now) ==
  IF note.state # PENDING_SPEND /\ note.state # UNSPENT /\ note.state # SPENT
  THEN Effect(InvalidState("Note must be UNSPENT or PENDING_SPEND"), note)
  ELSE Effect(Return(WithState(note, SPENT, now)), note)

MarkSpentOnlyUnspent(note, now) ==
  IF note.state # UNSPENT
  THEN Effect(InvalidState("Note must be UNSPENT or PENDING_SPEND"), note)
  ELSE Effect(Return(WithState(note, SPENT, now)), note)

markSpent(note, now) ==
  IF note.state # PENDING_SPEND /\ note.state # UNSPENT
  THEN Effect(InvalidState("Note must be UNSPENT or PENDING_SPEND"), note)
  ELSE Effect(Return(WithState(note, SPENT, now)), note)

\* the body of validateNote's try block; failAt: the hash call that fails
\* (1: the commitment hash, 2: the nullifier hash), 0 when none does
ValidationErrors(note, failAt) ==
  LET m == note.metadata
      e1 == IF HashDomain(DOMAIN_COMMITMENT, <<m.secret, m.amount, m.assetId>>) # m.commitment
            THEN <<"Commitment does not match secret">> ELSE <<>>
      e2 == IF HashDomain(DOMAIN_NULLIFIER, <<m.secret>>) # m.nullifier
            THEN <<"Nullifier does not match secret">> ELSE <<>>
      e3 == IF BigLe(m.amount, Big(0))
            THEN <<"Amount must be positive">> ELSE <<>>
      e4 == IF calculateBucketAmount(m.amount) # m.bucketAmount
            THEN <<"Bucket amount is incorrect">> ELSE <<>>
  IN IF failAt = 1 THEN <<"Validation error">>
     ELSE IF failAt = 2 THEN e1 \o <<"Validation error">>
     ELSE e1 \o e2 \o e3 \o e4

ValidateNoteMarksCorrupted(note, failAt) ==
  LET errors == ValidationErrors(note, failAt)
  IN Effect(Return([isValid |-> (Len(errors) = 0), errors |-> errors]),
            IF Len(errors) = 0 THEN note ELSE [note EXCEPT !.state = CORRUPTED])

validateNote(note, failAt) ==
  LET errors == ValidationErrors(note, failAt)
  IN Effect(Return([isValid |-> (Len(errors) = 0), errors |-> errors]), note)

(***************************************************************************)
(* core/commitment_builder: calculateNullifierHash                         *)
(***************************************************************************)
\* validateNullifierInputs: the error thrown, or "ok"
validateNullifierInputs(nullifier, secret) ==
  IF BigLt(nullifier, Big(0)) \/ BigGe(nullifier, TWO_256)
  THEN Throw(Error("Nullifier must be a 256-bit value"))
  ELSE IF BigLt(secret, Big(0)) \/ BigGe(secret, TWO_256)
  THEN Throw(Error("Secret must be a 256-bit value"))
  ELSE Return(Undefined)

calculateNullifierHash(nullifier, secret, hashOk) ==
  IF validateNullifierInputs(nullifier, secret).threw
  THEN validateNullifierInputs(nullifier, secret)
  ELSE IF ~hashOk THEN Throw(Error("Poseidon hash failed"))
  ELSE Return(Poseidon(<<nullifier, secret>>))

(***************************************************************************)
(* core/notes (storage variant): NoteEngine.prepareForSpending             *)
(***************************************************************************)
\* { ...note, metadata: { ...note.metadata, nullifierHash } }
prepareForSpendingCore(note, hashOk) ==
  LET nullifierHash == calculateNullifierHash(note.secrets.nullifier, note.secrets.secret, hashOk)
  IN IF nullifierHash.threw THEN Effect(nullifierHash, note)
     ELSE Effect(Return([note EXCEPT !.metadata.nullifierHash = nullifierHash.value]), note)
(***************************************************************************)
(* core/commitment_builder: buildCommitment                                *)
(***************************************************************************)
validateInputs(secret, nullifier, assetId, amount) ==
  IF BigLt(secret, Big(0)) \/ BigGe(secret, TWO_256)
  THEN Throw(Error("Secret must be a 256-bit value"))
  ELSE IF BigLt(nullifier, Big(0)) \/ BigGe(nullifier, TWO_256)
  THEN Throw(Error("Nullifier must be a 256-bit value"))
  ELSE IF BigLt(assetId, Big(0))
  THEN Throw(Error("Asset ID must be non-negative"))
  ELSE IF BigLe(amount, Big(0))
  THEN Throw(Error("Amount must be positive"))
  ELSE IF BigGt(amount, MAX_AMOUNT)
  THEN Throw(Error("Amount exceeds maximum"))
  ELSE IF secret = nullifier
  THEN Throw(Error("Secret and nullifier must be different"))
  ELSE Return(Undefined)

\* hashOk: whether the Poseidon oracle answers
buildCommitment(secret, nullifier, assetId, amount, hashOk) ==
  IF validateInputs(secret, nullifier, assetId, amount).threw
  THEN validateInputs(secret, nullifier, assetId, amount)
  ELSE IF findBucket(amount).threw THEN findBucket(amount)
  ELSE IF ~hashOk THEN Throw(Error("Poseidon hash failed"))
  ELSE LET bucketAmount == findBucket(amount).value
       IN Return([ commitment |-> Poseidon(<<secret, nullifier, assetId, bucketAmount>>),
                   bucketAmount |-> bucketAmount,
                   rawInputs |-> [secret |-> secret, nullifier |-> nullifier,
                                  assetId |-> assetId, amount |-> amount] ])

\* KeyManager.hashNoteId: ((secret ^ nullifier) * c) & (2^256 - 1), a value
\* fixed by the two secrets and symmetric in them
hashNoteId(secret, nullifier) == [mixOf |-> {secret, nullifier}]

\* createNote of core/notes: generateSecrets drew secret and nullifier
createNoteCore(secret, nullifier, assetId, amount, now, hashOk) ==
  LET built == buildCommitment(secret, nullifier, assetId, amount, hashOk)
  IN IF built.threw THEN built
     ELSE Return([ secrets |-> [secret |-> secret, nullifier |-> nullifier,
                                noteId |-> hashNoteId(secret, nullifier)],
                   metadata |-> [ assetId |-> assetId, amount |-> amount,
                                  bucketAmount |-> built.value.bucketAmount,
                                  timestamp |-> now, spent |-> FALSE,
                                  commitment |-> built.value.commitment,
                                  nullifierHash |-> Undefined ] ])

\* reconstructCommitment(secret, nullifier, assetId, bucketAmount)
reconstructCommitment(secret, nullifier, assetId, bucketAmount, hashOk) ==
  IF ~hashOk THEN Throw(Error("Poseidon hash failed"))
  ELSE Return(Poseidon(<<secret, nullifier, assetId, bucketAmount>>))

VerifyCommitmentRethrows(commitment, secret, nullifier, assetId, amount, hashOk) ==
  IF findBucket(amount).threw THEN findBucket(amount)
  ELSE LET recomputed == reconstructCommitment(secret, nullifier, assetId,
                                               findBucket(amount).value, hashOk)
       IN IF recomputed.threw THEN recomputed
          ELSE Return(commitment = recomputed.value)

VerifyCommitmentExactAmount(commitment, secret, nullifier, assetId, amount, hashOk) ==
  IF findBucket(amount).threw THEN Return(FALSE)
  ELSE LET recomputed == reconstructCommitment(secret, nullifier, assetId, amount, hashOk)
       IN IF recomputed.threw THEN Return(FALSE)
          ELSE Return(commitment = recomputed.value)

\* verifyCommitment: the try block, and the catch that returns false
verifyCommitment(commitment, secret, nullifier, assetId, amount, hashOk) ==
  IF findBucket(amount).threw THEN Return(FALSE)
  ELSE LET recomputed == reconstructCommitment(secret, nullifier, assetId,
                                               findBucket(amount).value, hashOk)
       IN IF recomputed.threw THEN Return(FALSE)
          ELSE Return(commitment = recomputed.value)

\* what this.poseidon.hash receives: the list of inputs and nothing else
OracleQuery(inputs) == [inputs |-> inputs]

\* an entry of the log of oracle invocations: what it was made for, and the query
Invocation(purpose, query) == [purpose |-> purpose, query |-> query]

\* the oracle invocations of buildCommitment
buildCommitmentQueries(secret, nullifier, assetId, amount) ==
  IF validateInputs(secret, nullifier, assetId, amount).threw \/ findBucket(amount).threw
  THEN <<>>
  ELSE <<Invocation("commitment",
                    OracleQuery(<<secret, nullifier, assetId, findBucket(amount).value>>))>>

\* the oracle invocations of calculateNullifierHash
calculateNullifierHashQueries(nullifier, secret) ==
  IF validateNullifierInputs(nullifier, secret).threw THEN <<>>
  ELSE <<Invocation("nullifier", OracleQuery(<<nullifier, secret>>))>>

\* the oracle invocations of verifyCommitment
verifyCommitmentQueries(secret, nullifier, assetId, amount) ==
  IF findBucket(amount).threw THEN <<>>
  ELSE <<Invocation("commitment",
                    OracleQuery(<<secret, nullifier, assetId, findBucket(amount).value>>))>>

(***************************************************************************)
(* merkle/client: MerkleClient.verifyProof                                 *)
(*                                                                         *)
(* A string is the numeral it spells and the way it spells it: canonical   *)
(* decimal ("dec"), 0x-prefixed hexadecimal ("hex"), or no numeral at all  *)
(* ("bad").  BigInt(s) reads the number of a numeral and throws for        *)
(* anything else; toString() always writes canonical decimal; === on       *)
(* strings compares the spelling.                                          *)
(***************************************************************************)
Dec(v) == [fmt |-> "dec", num |-> v]
Hex(v) == [fmt |-> "hex", num |-> v]
BadString == [fmt |-> "bad", num |-> Big(0)]

\* BigInt(s)
BigInt(s) == IF s.fmt = "bad" THEN Throw(Error("SyntaxError")) ELSE Return(s.num)

\* v.toString()
toString(v) == Dec(v)

hashLeaf(leaf) == leaf

hashParent(left, right) == Poseidon(<<left, right>>)

\* index >> i on a JavaScript number: the shift count is taken modulo 32
ShiftRight(index, i) == index \div (2 ^ (i % 32))

\* ((proof.index >> i) & 1) === 0, i counted from 0
isLeftChild(index, i) == (ShiftRight(index, i) % 2) = 0

\* the loop of verifyProof from its iteration i (counted from 0) up to but not
\* including iteration last, then the comparison with proof.root; failAt: the
\* iteration whose hash request fails (counted from 1), 0 when none does.
\* The outcome of the try block: matches, or the exception that leaves it.
RECURSIVE VerifyFrom(_, _, _, _, _)
VerifyFrom(proof, failAt, i, last, currentHash) ==
  IF i >= last THEN Return(toString(currentHash) = proof.root)
  ELSE IF BigInt(proof.path[i + 1]).threw THEN BigInt(proof.path[i + 1])
  ELSE IF failAt = i + 1 THEN Throw(Error("Poseidon hash failed"))
  ELSE LET siblingHash == BigInt(proof.path[i + 1]).value
       IN VerifyFrom(proof, failAt, i + 1, last,
                     IF isLeftChild(proof.index, i)
                     THEN hashParent(currentHash, siblingHash)
                     ELSE hashParent(siblingHash, currentHash))

VerifyProofStopsEarly(proof, failAt) ==
  IF BigInt(proof.leaf).threw THEN Return(FALSE)
  ELSE LET matches == VerifyFrom(proof, failAt, 0, Len(proof.path) - 1,
                                 hashLeaf(BigInt(proof.leaf).value))
       IN IF matches.threw THEN Return(FALSE) ELSE matches

verifyProof(proof, failAt) ==
  IF BigInt(proof.leaf).threw THEN Return(FALSE)
  ELSE LET matches == VerifyFrom(proof, failAt, 0, Len(proof.path),
                                 hashLeaf(BigInt(proof.leaf).value))
       IN IF matches.threw THEN Return(FALSE) ELSE matches

(***************************************************************************)
(* Bounds of the note lifecycle model.                                     *)
(***************************************************************************)
(***************************************************************************)
(* crypto/encryption: EncryptionService, and storage: StorageManager with   *)
(* its adapters.                                                            *)
(*                                                                         *)
(* A wallet signature is a string; the file name of the Node adapter uses   *)
(* its first 16 characters (head), the key derivation all of it.  AES-GCM   *)
(* is a sealed box: the ciphertext and the tag are fixed by key, iv and     *)
(* plaintext, and opening it succeeds only with the tag the same key makes. *)
(***************************************************************************)
\* HKDF over the whole signature with the fixed salt and info
deriveStorageKey(walletSignature) ==
  [hkdf |-> walletSignature, salt |-> "shade-sdk-storage-key-v1", info |-> "note-encryption"]

GcmTag(key, iv, data) == [tagBy |-> key, iv |-> iv, over |-> data]

\* encrypt(key, data) with the iv getRandomValues drew
encrypt(key, data, iv) ==
  [ ciphertext |-> [sealedBy |-> key, iv |-> iv, data |-> data],
    iv |-> iv,
    tag |-> GcmTag(key, iv, data) ]

DecryptIgnoresTag(key, encrypted) == Return(encrypted.ciphertext.data)

\* decrypt(key, encrypted): crypto.subtle.decrypt rejects on a tag mismatch
decrypt(key, encrypted) ==
  IF encrypted.tag = GcmTag(key, encrypted.iv, encrypted.ciphertext.data)
  THEN Return(encrypted.ciphertext.data)
  ELSE Throw(Error("OperationError"))

SecretsJsonNoteIdFromSecret(secrets) ==
  [ secret |-> toString(secrets.secret),
    nullifier |-> toString(secrets.nullifier),
    noteId |-> toString(secrets.secret) ]

\* JSON.stringify({secret: secret.toString(), ...}) and JSON.parse with BigInt(...)
secretsJson(secrets) ==
  [ secret |-> toString(secrets.secret),
    nullifier |-> toString(secrets.nullifier),
    noteId |-> toString(secrets.noteId) ]

parseSecrets(json) ==
  [ secret |-> BigInt(json.secret).value,
    nullifier |-> BigInt(json.nullifier).value,
    noteId |-> BigInt(json.noteId).value ]

\* the StoredNote literal of storeNote
StoredNote(note, encryptedSecrets, now) ==
  [ commitment |-> toString(note.metadata.commitment),
    encryptedSecrets |-> encryptedSecrets,
    metadata |-> note.metadata,
    spent |-> FALSE,
    createdAt |-> now,
    updatedAt |-> now ]

\* stored.spent = true; stored.updatedAt = Date.now()
Spend(stored, now) == [stored EXCEPT !.spent = TRUE, !.updatedAt = now]

Null == [null |-> TRUE]

\* a StorageManager as constructed: adapter (or db) and storageKey are null
Constructed(backend) ==
  [ backend |-> backend, pc |-> "constructed", walletSignature |-> Null,
    storageKey |-> Null, adapter |-> FALSE ]

\* getAdapter() and getStorageKey() of the adapter-based manager
getAdapter(session) ==
  IF ~session.adapter
  THEN Throw(Error("Storage adapter not initialized. Call initialize() first."))
  ELSE Return(session.backend)

getStorageKey(session) ==
  IF session.storageKey = Null
  THEN Throw(Error("Storage key not initialized. Call initialize() first."))
  ELSE Return(session.storageKey)

\* the guard at the head of storeNote, getNote, getUnspentNotes and
\* markAsSpent: the outcome of the call so far (Return when it goes on)
RequireInitialized(session, op) ==
  IF session.backend = "idb"
  THEN IF ~session.adapter \/ (op # "markAsSpent" /\ session.storageKey = Null)
       THEN Throw(Error("Storage not initialized"))
       ELSE Return(Undefined)
  ELSE IF getAdapter(session).threw THEN getAdapter(session)
  ELSE IF op # "markAsSpent" /\ getStorageKey(session).threw THEN getStorageKey(session)
  ELSE Return(Undefined)

\* decrypt and rebuild a Note from a record
DecryptNote(key, stored) ==
  LET json == decrypt(key, stored.encryptedSecrets)
  IN IF json.threw THEN json
     ELSE Return([secrets |-> parseSecrets(json.value), metadata |-> stored.metadata])

\* getNote(commitment) on a store (a map from commitment strings to records)
getNote(store, key, commitment) ==
  IF commitment \notin DOMAIN store THEN Return(Null)
  ELSE DecryptNote(key, store[commitment])

\* getAllByIndex: the records whose indexed value is the value asked for; a
\* bigint and the string of its digits are different values (=== in the Node
\* adapter, key comparison in IndexedDB)
getAllByIndex(store, indexName, value) ==
  LET matches(stored) ==
        IF indexName = "spent" THEN stored.spent = value
        ELSE stored.spent = value[1] /\ stored.metadata.assetId = value[2]
  IN { store[k] : k \in { c \in DOMAIN store : matches(store[c]) } }

\* getUnspentNotes(assetId?): Promise.all over the decrypted matches
getUnspentNotes(store, key, assetId) ==
  LET storedNotes == IF assetId # Undefined
                     THEN getAllByIndex(store, "spent_asset", <<FALSE, toString(assetId)>>)
                     ELSE getAllByIndex(store, "spent", FALSE)
  IN IF \E stored \in storedNotes : DecryptNote(key, stored).threw
     THEN Throw(Error("OperationError"))
     ELSE Return({ DecryptNote(key, stored).value : stored \in storedNotes })

\* saveToFile and loadFromFile: JSON.stringify writes every bigint as the
\* string of its digits, JSON.parse reads it back as that string
JsonValue(v) == IF v = Undefined \/ "fmt" \in DOMAIN v THEN v ELSE toString(v)

JsonFile(store) ==
  [ k \in DOMAIN store |->
      [ store[k] EXCEPT !.metadata =
          [ assetId |-> JsonValue(@.assetId), amount |-> JsonValue(@.amount),
            bucketAmount |-> JsonValue(@.bucketAmount), timestamp |-> @.timestamp,
            spent |-> @.spent, commitment |-> JsonValue(@.commitment),
            nullifierHash |-> JsonValue(@.nullifierHash) ] ] ]

\* `0x${v.toString(16).slice(0, n)}...`: the first n hexadecimal digits of v
HexPrefix(v, n) == [hexDigitsOf |-> v, first |-> n]

\* the console.log lines of buildCommitment once its inputs are valid
buildCommitmentLog(secret, nullifier, assetId, amount) ==
  { [line |-> "Secret", shows |-> HexPrefix(secret, 16)],
    [line |-> "Nullifier", shows |-> HexPrefix(nullifier, 16)],
    [line |-> "Asset ID", shows |-> assetId],
    [line |-> "Amount", shows |-> amount],
    [line |-> "Bucket", shows |-> findBucket(amount).value] }

\* the console.log lines of storeNote
storeNoteLog(stored) ==
  { [line |-> "Commitment", shows |-> [sliceOf |-> stored.commitment, first |-> 16]] }

MaxClock == 1

Secrets == {Big(1)}
AssetIds == {Big(0)}
NoteAmounts == {Big(0), WeiBuckets[1], BigMul(Big(3), WeiBuckets[1])}

\* notes handed to the engine by a caller (read from storage, deserialized):
\* in any state, consistent or with a stored value that does not match
ReceivedNotes ==
  LET good(st) == NewNote(Big(1), Big(0), WeiBuckets[1], 0, st, Undefined, Undefined)
  IN UNION { { good(st),
               [good(st) EXCEPT !.metadata.commitment = Big(7)],
               [good(st) EXCEPT !.metadata.bucketAmount = WeiBuckets[2]],
               [good(st) EXCEPT !.metadata.amount = Big(0)] } : st \in NoteState }

\* notes of the storage variant, as StorageManager.getNote returns them
CoreNotes ==
  { [ secrets |-> [secret |-> sc, nullifier |-> nf, noteId |-> Big(9)],
      metadata |-> [ assetId |-> Big(0), amount |-> Big(250), bucketAmount |-> Big(256),
                     timestamp |-> 0, spent |-> sp,
                     commitment |-> Poseidon(<<sc, nf, Big(0), Big(256)>>),
                     nullifierHash |-> Undefined ] ] :
      sc \in {Big(1)}, nf \in {Big(2), BigPow2(256)}, sp \in BOOLEAN }

VARIABLES
  clock,         \* the wall clock new Date() reads
  note,          \* the note snapshot the caller holds (state-machine variant)
  coreNote,      \* the note snapshot the caller holds (storage variant)
  lastCall,      \* the last NoteEngine call: op, time, input, inputAfter, outcome
  spentCount,    \* how often the held note's chain made the transition to SPENT
  fbAmount,      \* the amount of the last findBucket call
  fbResult,      \* its outcome
  fbPrevAmount,  \* the amount of the call before it
  fbPrevResult,  \* and its outcome
  mkProof,       \* the proof last given to verifyProof
  mkFailAt,      \* the hash request that failed during that call (0: none)
  mkResult,      \* the outcome of that call
  mkBase,        \* the accepted proof that mkProof is a tampered copy of
  asmPc,         \* where the running assemble call stands
  asmNote,       \* its note
  asmOptions,    \* its options
  asmProof,      \* the outcome of its getProof
  asmValid,      \* the outcome of its verifyProof
  asmNullifier,  \* the outcome of its calculateNullifierHash
  asmCalls,      \* the calls it has made on MerkleClient and CommitmentBuilder
  asmResult,     \* its outcome
  cbOp,          \* the last CommitmentBuilder call
  cbArgs,        \* its arguments
  cbResult,      \* its outcome
  cbBuilt,       \* the buildCommitment call before a verifyCommitment: args and outcome
  cbQueries,     \* the oracle invocations made so far
  stSession,     \* the StorageManager of the session: backend, signature, key, adapter
  stStore,       \* the records the session's adapter holds, by commitment string
  stDisk,        \* what outlives a session: the Node files and the IndexedDB database
  stTasks,       \* the storeNote and markAsSpent calls in flight, at most two
  stBatch,       \* the store before the calls now overlapping began, and those calls
  stWritten,     \* the note each key was last given by a storeNote of this session
  stLast,        \* the last getNote or getUnspentNotes call and its outcome
  stLog,         \* the console lines of this session
  stOps,         \* how many storeNote and markAsSpent calls were made
  stSessions,    \* how many sessions were opened
  btOp,          \* the batch call in progress: assembleBatch or verifyProofsBatch
  btItems,       \* its elements, each with what the services answer for it
  btDone,        \* the outcome of each element's promise once it has settled
  btOrder,       \* the elements in the order their promises settled
  btResult,      \* how the promise of the batch call settled
  orPc,          \* where the running hash callback stands
  orQuery,       \* its domain and inputs, and whether a remote oracle is configured
  orRemote,      \* the outcomes of the requests made to the remote oracle
  orResult,      \* its outcome
  sdkIsInitialized, \* ShadeSDK.isInitialized
  sdkSyncInterval,  \* ShadeSDK.syncInterval: the timer last set, 0 when none was
  sdkTimers,        \* the interval timers set and not cleared
  sdkInit,          \* where each of two initialize() calls stands
  sdkDestroy,       \* where the destroy() call stands
  sdkDestroyed,     \* destroy() has completed and initialize() was not called since
  sdkOverlapped,    \* an initialize() or destroy() was called while another ran
  sdkCalls,         \* how many initialize() calls were made
  sdkSyncs,         \* how many incrementalSync calls the timers started
  sdkLateSync,      \* one of them was started after destroy() had completed
  sdkStored,        \* the note the storage holds for the wallet and commitment
  sdkSpend          \* the prepareSpendProof call: where it stands, the note
                    \* stored before it, its outcome

varsNotes == <<clock, note, coreNote, lastCall, spentCount>>
varsBucket == <<fbAmount, fbResult, fbPrevAmount, fbPrevResult>>

varsMerkle == <<mkProof, mkFailAt, mkResult, mkBase>>
varsAsm == <<asmPc, asmNote, asmOptions, asmProof, asmValid, asmNullifier, asmCalls, asmResult>>
varsCommit == <<cbOp, cbArgs, cbResult, cbBuilt, cbQueries>>
varsStore == <<stSession, stStore, stDisk, stTasks, stBatch, stWritten, stLast, stLog,
               stOps, stSessions>>
varsBatch == <<btOp, btItems, btDone, btOrder, btResult>>
varsOracle == <<orPc, orQuery, orRemote, orResult>>
\* one Node session of the StorageManager, from the construction of its
\* adapter: ldManager is where initialize() stands, ldFs where the
\* initFileSystem() the constructor started stands, ldFilePath whether filePath
\* is set, ldData the adapter's Map, ldFile the notes file, ldPut the storeNote
\* in flight, ldWritten the keys put since initialize() resolved, ldLate whether
\* the timer fired before the file was loaded, ldPuts the calls made, ldLast
\* the last getNote
VARIABLES ldManager, ldFs, ldFilePath, ldData, ldFile, ldPut, ldWritten, ldLate, ldPuts, ldLast

varsLoad == <<ldManager, ldFs, ldFilePath, ldData, ldFile, ldPut, ldWritten, ldLate, ldPuts, ldLast>>

\* serializeNote and deserializeNote: serNote is the note given to
\* serializeNote, serData the string it returned, serParsed what
\* deserializeNote returned for that string
VARIABLES serNote, serData, serParsed

varsSerial == <<serNote, serData, serParsed>>

varsSdk == <<sdkIsInitialized, sdkSyncInterval, sdkTimers, sdkInit, sdkDestroy, sdkDestroyed,
             sdkOverlapped, sdkCalls, sdkSyncs, sdkLateSync, sdkStored, sdkSpend>>

vars == <<varsNotes, varsBucket, varsMerkle, varsAsm, varsCommit, varsStore, varsBatch, varsOracle, varsSdk, varsLoad, varsSerial>>

(***************************************************************************)
(* The note lifecycle: NoteEngine calls on the note the caller holds.      *)
(***************************************************************************)
Call(op, input, effect) ==
  [op |-> op, at |-> clock, input |-> input, inputAfter |-> effect.arg,
   outcome |-> effect.outcome]

NoProof == [none |-> TRUE]

NoOptions == [recipient |-> Undefined, relayerFee |-> Undefined]

NoArgs == [none |-> TRUE]

\* the first 16 characters of the wallet signatures in use
Heads == {"0xaaaa", "0xbbbb"}

\* a task slot with no call in it, and an empty store
Idle == [pc |-> "idle"]
EmptyStore == <<>>

\* after construction: no note held, no call made yet
Init ==
  /\ clock = 0
  /\ note = NoNote
  /\ coreNote = NoNote
  /\ lastCall = Call("none", NoNote, Effect(NoCall, NoNote))
  /\ spentCount = 0
  /\ fbAmount = Big(0)
  /\ fbResult = NoCall
  /\ fbPrevAmount = Big(0)
  /\ fbPrevResult = NoCall
  /\ mkProof = NoProof
  /\ mkFailAt = 0
  /\ mkResult = NoCall
  /\ mkBase = NoProof
  /\ asmPc = "idle"
  /\ asmNote = NoNote
  /\ asmOptions = NoOptions
  /\ asmProof = NoCall
  /\ asmValid = NoCall
  /\ asmNullifier = NoCall
  /\ asmCalls = <<>>
  /\ asmResult = NoCall
  /\ cbOp = "none"
  /\ cbArgs = NoArgs
  /\ cbResult = NoCall
  /\ cbBuilt = NoArgs
  /\ cbQueries = <<>>
  /\ stSession = Constructed("none")
  /\ stStore = EmptyStore
  /\ stDisk = [files |-> [h \in Heads |-> EmptyStore], idb |-> EmptyStore]
  /\ stTasks = [i \in 1..2 |-> Idle]
  /\ stBatch = [base |-> EmptyStore, ops |-> <<>>]
  /\ stWritten = EmptyStore
  /\ stLast = [op |-> "none"]
  /\ stLog = {}
  /\ stOps = 0
  /\ stSessions = 0
  /\ btOp = "none"
  /\ btItems = <<>>
  /\ btDone = <<>>
  /\ btOrder = <<>>
  /\ btResult = NoCall
  /\ orPc = "idle"
  /\ orQuery = NoArgs
  /\ orRemote = <<>>
  /\ orResult = NoCall
  /\ sdkIsInitialized = FALSE
  /\ sdkSyncInterval = 0
  /\ sdkTimers = {}
  /\ sdkInit = [i \in 1..2 |-> "idle"]
  /\ sdkDestroy = "idle"
  /\ sdkDestroyed = FALSE
  /\ sdkOverlapped = FALSE
  /\ sdkCalls = 0
  /\ sdkSyncs = 0
  /\ sdkLateSync = FALSE
  /\ sdkStored = NoNote
  /\ sdkSpend = [pc |-> "idle"]
  /\ ldManager = "constructed"
  /\ ldFs = "none"
  /\ ldFilePath = FALSE
  /\ ldData = EmptyStore
  /\ ldFile = [exists |-> FALSE, content |-> EmptyStore]
  /\ ldPut = Idle
  /\ ldWritten = {}
  /\ ldLate = FALSE
  /\ ldPuts = 0
  /\ ldLast = [op |-> "none"]
  /\ serNote = NoNote
  /\ serData = NoNote
  /\ serParsed = NoNote

\* what the caller holds after a call on the held note: the returned note, or
\* else the object it passed in
HeldAfter(effect) ==
  IF ~effect.outcome.threw /\ "state" \in DOMAIN effect.outcome.value
  THEN effect.outcome.value
  ELSE effect.arg

Tick ==
  /\ clock < MaxClock
  /\ clock' = clock + 1
  /\ UNCHANGED <<note, coreNote, lastCall, spentCount, varsBucket, varsMerkle, varsAsm, varsCommit, varsStore, varsBatch, varsOracle, varsSdk, varsLoad, varsSerial>>

\* the caller holds one note at a time; a new chain starts with a created, a
\* recovered or a received note
CreateNote(secret, assetId, amount, hashOk) ==
  LET outcome == createNote(secret, assetId, amount, clock, hashOk)
  IN /\ note' = IF outcome.threw THEN note ELSE outcome.value
     /\ spentCount' = IF outcome.threw THEN spentCount ELSE 0
     /\ coreNote' = NoNote
     /\ lastCall' = Call("createNote", NoNote, Effect(outcome, NoNote))
     /\ UNCHANGED <<clock, varsBucket, varsMerkle, varsAsm, varsCommit, varsStore, varsBatch, varsOracle, varsSdk, varsLoad, varsSerial>>

RecoverNote(secret, assetId, amount, depositBlock, hashOk) ==
  LET outcome == recoverNote(secret, assetId, amount, depositBlock, Undefined, clock, hashOk)
  IN /\ note' = IF outcome.threw THEN note ELSE outcome.value
     /\ spentCount' = IF outcome.threw THEN spentCount ELSE 0
     /\ coreNote' = NoNote
     /\ lastCall' = Call("recoverNote", NoNote, Effect(outcome, NoNote))
     /\ UNCHANGED <<clock, varsBucket, varsMerkle, varsAsm, varsCommit, varsStore, varsBatch, varsOracle, varsSdk, varsLoad, varsSerial>>

ReceiveNote(n) ==
  /\ note' = n
  /\ spentCount' = 0
  /\ coreNote' = NoNote
  /\ lastCall' = Call("none", NoNote, Effect(NoCall, NoNote))
  /\ UNCHANGED <<clock, varsBucket, varsMerkle, varsAsm, varsCommit, varsStore, varsBatch, varsOracle, varsSdk, varsLoad, varsSerial>>

PrepareForSpending ==
  /\ note # NoNote
  /\ LET effect == prepareForSpending(note, clock)
     IN /\ note' = HeldAfter(effect)
        /\ lastCall' = Call("prepareForSpending", note, effect)
        /\ spentCount' = spentCount
  /\ UNCHANGED <<clock, coreNote, varsBucket, varsMerkle, varsAsm, varsCommit, varsStore, varsBatch, varsOracle, varsSdk, varsLoad, varsSerial>>

MarkSpent ==
  /\ note # NoNote
  /\ LET effect == markSpent(note, clock)
     IN /\ note' = HeldAfter(effect)
        /\ lastCall' = Call("markSpent", note, effect)
        /\ spentCount' = IF HeldAfter(effect).state = SPENT /\ ~effect.outcome.threw
                          THEN spentCount + 1 ELSE spentCount
  /\ UNCHANGED <<clock, coreNote, varsBucket, varsMerkle, varsAsm, varsCommit, varsStore, varsBatch, varsOracle, varsSdk, varsLoad, varsSerial>>

ValidateNote(failAt) ==
  /\ note # NoNote
  /\ LET effect == validateNote(note, failAt)
     IN /\ note' = HeldAfter(effect)
        /\ lastCall' = Call("validateNote", note, effect)
        /\ spentCount' = spentCount
  /\ UNCHANGED <<clock, coreNote, varsBucket, varsMerkle, varsAsm, varsCommit, varsStore, varsBatch, varsOracle, varsSdk, varsLoad, varsSerial>>

\* the storage variant: a note read from the store, then prepared
LoadCoreNote(n) ==
  /\ coreNote' = n
  /\ note' = NoNote
  /\ spentCount' = 0
  /\ lastCall' = Call("none", NoNote, Effect(NoCall, NoNote))
  /\ UNCHANGED <<clock, varsBucket, varsMerkle, varsAsm, varsCommit, varsStore, varsBatch, varsOracle, varsSdk, varsLoad, varsSerial>>

\* createNote of core/notes; the secrets drawn may coincide
CreateNoteCore ==
  \E nullifier \in {Big(1), Big(2)}, amount \in {Big(0), Big(250)}, hashOk \in BOOLEAN :
    LET outcome == createNoteCore(Big(1), nullifier, Big(0), amount, clock, hashOk)
    IN /\ coreNote' = IF outcome.threw THEN coreNote ELSE outcome.value
       /\ note' = NoNote
       /\ spentCount' = 0
       /\ lastCall' = Call("createNoteCore", NoNote, Effect(outcome, NoNote))
       /\ UNCHANGED <<clock, varsBucket, varsMerkle, varsAsm, varsCommit, varsStore, varsBatch, varsOracle, varsSdk, varsLoad, varsSerial>>

PrepareForSpendingCore(hashOk) ==
  /\ coreNote # NoNote
  /\ LET effect == prepareForSpendingCore(coreNote, hashOk)
     IN /\ coreNote' = IF effect.outcome.threw THEN effect.arg ELSE effect.outcome.value
        /\ lastCall' = Call("prepareForSpendingCore", coreNote, effect)
  /\ UNCHANGED <<clock, note, spentCount, varsBucket, varsMerkle, varsAsm, varsCommit, varsStore, varsBatch, varsOracle, varsSdk, varsLoad, varsSerial>>

NextNotes ==
  \/ Tick
  \/ \E secret \in Secrets, assetId \in AssetIds, amount \in NoteAmounts, hashOk \in BOOLEAN :
        CreateNote(secret, assetId, amount, hashOk)
  \/ \E secret \in Secrets, assetId \in AssetIds, amount \in NoteAmounts,
         depositBlock \in {Undefined, Num(7)}, hashOk \in BOOLEAN :
        RecoverNote(secret, assetId, amount, depositBlock, hashOk)
  \/ \E n \in ReceivedNotes : ReceiveNote(n)
  \/ PrepareForSpending
  \/ MarkSpent
  \/ \E failAt \in 0..2 : ValidateNote(failAt)
  \/ \E n \in CoreNotes : LoadCoreNote(n)
  \/ CreateNoteCore
  \/ \E hashOk \in BOOLEAN : PrepareForSpendingCore(hashOk)


\* the lifecycle state a note of either variant is in: the state field, or
\* for the storage variant the spent flag, its only record of the lifecycle
StateOf(n) ==
  IF "state" \in DOMAIN n THEN n.state
  ELSE IF n.metadata.spent THEN SPENT ELSE UNSPENT

Returned(call) == ~call.outcome.threw /\ "value" \in DOMAIN call.outcome

ThrewInvalidState(call) ==
  /\ call.outcome.threw
  /\ call.outcome.error.name = "ShadeError"
  /\ call.outcome.error.code = NOTE_INVALID_STATE

LifecycleOps == {"prepareForSpending", "markSpent", "validateNote"}

\* the state-machine variant alone: prepareForSpending returns a
\* PENDING_SPEND note exactly for an UNSPENT note and throws NoteInvalidState
\* for every other state
PrepareForSpendingGuardsState ==
  lastCall.op = "prepareForSpending" =>
    /\ Returned(lastCall) <=> lastCall.input.state = UNSPENT
    /\ Returned(lastCall) => lastCall.outcome.value.state = PENDING_SPEND
    /\ ~Returned(lastCall) => ThrewInvalidState(lastCall)

\* C1: every NoteEngine.prepareForSpending, of the state-machine variant and
\* of the storage variant, fails with NoteInvalidState and returns no note
\* when the note is not UNSPENT, and the state-machine variant returns a
\* PENDING_SPEND note exactly for an UNSPENT note.
C1_PrepareForSpendingOnlyFromUnspent ==
  /\ PrepareForSpendingGuardsState
  /\ lastCall.op \in {"prepareForSpending", "prepareForSpendingCore"} =>
       (StateOf(lastCall.input) # UNSPENT => ThrewInvalidState(lastCall))

\* C2: markSpent returns a SPENT note exactly for an UNSPENT or PENDING_SPEND
\* note and throws NoteInvalidState for SPENT, RECOVERED and CORRUPTED.
C2_MarkSpentOnlyFromUnspentOrPending ==
  lastCall.op = "markSpent" =>
    /\ Returned(lastCall) <=> lastCall.input.state \in {UNSPENT, PENDING_SPEND}
    /\ Returned(lastCall) => lastCall.outcome.value.state = SPENT
    /\ ~Returned(lastCall) => ThrewInvalidState(lastCall)

C2_Witness ==
  /\ lastCall.op = "markSpent"
  /\ lastCall.input.state = PENDING_SPEND
  /\ Returned(lastCall)
  /\ note.state = SPENT

\* C3: a lifecycle call on a SPENT or CORRUPTED note leaves the held note in
\* that state, and a chain of lifecycle calls makes the transition to SPENT
\* at most once.
C3_SpentAndCorruptedTerminal ==
  [][ /\ (/\ note # NoNote
          /\ note.state \in {SPENT, CORRUPTED}
          /\ lastCall'.op \in LifecycleOps)
        => (note' # NoNote /\ note'.state = note.state)
      /\ spentCount' <= 1 ]_vars

C3_Witness ==
  /\ lastCall.op = "markSpent"
  /\ lastCall.input.state = SPENT
  /\ ThrewInvalidState(lastCall)
  /\ spentCount = 1

\* C4: prepareForSpending (both variants) and markSpent leave the note passed
\* in as it was, and the note returned equals it in everything but state,
\* nullifierHash and updatedAt, updatedAt being the time of the call.
C4_TransitionsArePure ==
  /\ lastCall.op \in {"prepareForSpending", "markSpent", "prepareForSpendingCore"} =>
       lastCall.inputAfter = lastCall.input
  /\ lastCall.op \in {"prepareForSpending", "markSpent"} /\ Returned(lastCall) =>
       LET in == lastCall.input
           out == lastCall.outcome.value
       IN /\ [out EXCEPT !.state = in.state,
                          !.metadata.updatedAt = in.metadata.updatedAt] = in
          /\ out.metadata.updatedAt = lastCall.at
  /\ lastCall.op = "prepareForSpendingCore" /\ Returned(lastCall) =>
       LET in == lastCall.input
           out == lastCall.outcome.value
       IN [out EXCEPT !.metadata.nullifierHash = in.metadata.nullifierHash] = in

C4_Witness ==
  /\ lastCall.op = "prepareForSpending"
  /\ Returned(lastCall)
  /\ lastCall.inputAfter.state = UNSPENT
  /\ lastCall.outcome.value.metadata.updatedAt # lastCall.input.metadata.updatedAt
  /\ lastCall.outcome.value.metadata.createdAt = lastCall.input.metadata.createdAt

\* C5: validateNote returns {isValid, errors} with isValid exactly when
\* errors is empty, whatever the note and whether or not the oracle fails,
\* and the note passed in, which the caller still holds, is unchanged.
C5_ValidateNoteOnlyReports ==
  lastCall.op = "validateNote" =>
    /\ Returned(lastCall)
    /\ lastCall.outcome.value.isValid <=> (lastCall.outcome.value.errors = <<>>)
    /\ lastCall.inputAfter = lastCall.input
    /\ note = lastCall.input

C5_Witness ==
  /\ lastCall.op = "validateNote"
  /\ Returned(lastCall)
  /\ ~lastCall.outcome.value.isValid
  /\ Len(lastCall.outcome.value.errors) >= 2
  /\ note.state = UNSPENT

\* the oracle answered both hash requests of the last validateNote call
ValidatedWithOracle ==
  /\ lastCall.op = "validateNote"
  /\ \A i \in DOMAIN lastCall.outcome.value.errors :
       lastCall.outcome.value.errors[i] # "Validation error"

\* the stored commitment or nullifier is not the recomputed one, or the
\* amount is not positive
SecretsOrAmountWrong(m) ==
  \/ HashDomain(DOMAIN_COMMITMENT, <<m.secret, m.amount, m.assetId>>) # m.commitment
  \/ HashDomain(DOMAIN_NULLIFIER, <<m.secret>>) # m.nullifier
  \/ BigLe(m.amount, Big(0))

\* what holds: the bucket validateNote compares with is the closest bucket of
\* calculateBucketAmount
ValidateNoteReportsByClosestBucket ==
  ValidatedWithOracle =>
    LET m == lastCall.input.metadata
        result == lastCall.outcome.value
    IN /\ result.isValid <=> (result.errors = <<>>)
       /\ (result.errors # <<>>) <=>
            (SecretsOrAmountWrong(m) \/ calculateBucketAmount(m.amount) # m.bucketAmount)

\* C29: with the oracle answering, validateNote reports an error exactly when
\* the recomputed commitment or nullifier differs from the stored one, the
\* amount is not positive, or bucketAmount differs from findBucket(amount);
\* otherwise it returns isValid = true and no error.
C29_ValidateNoteReportsExactly ==
  ValidatedWithOracle =>
    LET m == lastCall.input.metadata
        result == lastCall.outcome.value
    IN /\ result.isValid <=> (result.errors = <<>>)
       /\ (result.errors # <<>>) <=>
            (SecretsOrAmountWrong(m) \/ findBucket(m.amount) # Return(m.bucketAmount))

\* the sequences of transitions a caller can ask of the engine for a note
MaxSpendSteps == 2

SpendOps == {"prepareForSpending", "markSpent"}

SpendSequences == UNION { [1..k -> SpendOps] : k \in 0..MaxSpendSteps }

\* the note a caller holds after the calls of ops, made one after the other
\* on the note held; a call that throws leaves it with the note it had
RECURSIVE AfterOps(_, _, _)
AfterOps(n, ops, now) ==
  IF ops = <<>> THEN n
  ELSE LET effect == IF Head(ops) = "prepareForSpending"
                     THEN prepareForSpending(n, now)
                     ELSE markSpent(n, now)
       IN AfterOps(HeldAfter(effect), Tail(ops), now)

CanBeSpent(n) == \E ops \in SpendSequences : AfterOps(n, ops, clock).state = SPENT

CreateNoteCoreInvariant ==
  (lastCall.op = "createNoteCore" /\ Returned(lastCall)) =>
    LET n == lastCall.outcome.value
    IN /\ ~n.metadata.spent
       /\ n.metadata.bucketAmount = findBucket(n.metadata.amount).value
       /\ n.metadata.commitment =
            Poseidon(<<n.secrets.secret, n.secrets.nullifier, n.metadata.assetId,
                       n.metadata.bucketAmount>>)
       /\ n.secrets.secret # n.secrets.nullifier

\* C14: a note createNote returns is UNSPENT, its bucketAmount is
\* findBucket(amount), its commitment is Hash(DOMAIN_COMMITMENT, [secret,
\* nullifier, assetId, bucketAmount]), and its secret differs from its nullifier.
C14_CreatedNoteSatisfiesInvariant ==
  (lastCall.op = "createNote" /\ Returned(lastCall)) =>
    LET n == lastCall.outcome.value
    IN /\ n.state = UNSPENT
       /\ n.metadata.bucketAmount = findBucket(n.metadata.amount).value
       /\ n.metadata.commitment =
            HashDomain(DOMAIN_COMMITMENT,
                       <<n.metadata.secret, n.metadata.nullifier, n.metadata.assetId,
                         n.metadata.bucketAmount>>)
       /\ n.metadata.secret # n.metadata.nullifier

(***************************************************************************)
(* findBucket called twice, with amounts of the sample.                    *)
(***************************************************************************)
\* the first call of a pair, with any amount of the sample
FindBucketFirst ==
  /\ fbResult = NoCall
  /\ \E amount \in Amounts :
       /\ fbAmount' = amount
       /\ fbResult' = findBucket(amount)
  /\ UNCHANGED <<fbPrevAmount, fbPrevResult, varsNotes, varsMerkle, varsAsm, varsCommit, varsStore, varsBatch, varsOracle, varsSdk, varsLoad, varsSerial>>

\* the second call: the first call's amount and outcome are kept
FindBucketSecond ==
  /\ fbResult # NoCall
  /\ fbPrevResult = NoCall
  /\ fbPrevAmount' = fbAmount
  /\ fbPrevResult' = fbResult
  /\ \E amount \in ProbeAmounts :
       /\ fbAmount' = amount
       /\ fbResult' = findBucket(amount)
  /\ UNCHANGED <<varsNotes, varsMerkle, varsAsm, varsCommit, varsStore, varsBatch, varsOracle, varsSdk, varsLoad, varsSerial>>

NextBucket ==
  \/ FindBucketFirst
  \/ FindBucketSecond


InDomain(amount) == BigGt(amount, Big(0)) /\ BigLe(amount, MAX_AMOUNT)

B_max == BigPow2(31)

BucketSet == { AMOUNT_BUCKETS[i] : i \in 1..Len(AMOUNT_BUCKETS) }

TableIsPowersOfTwo ==
  /\ Len(AMOUNT_BUCKETS) = 32
  /\ \A i \in 1..Len(AMOUNT_BUCKETS) : AMOUNT_BUCKETS[i] = BigPow2(i - 1)

\* findBucket(findBucket(a)) = findBucket(a) for every amount findBucket
\* accepts
FindBucketIdempotent ==
  (fbResult # NoCall /\ ~fbResult.threw) => findBucket(fbResult.value) = fbResult

C10_FindBucketMonotonic ==
  (fbPrevResult # NoCall /\ InDomain(fbAmount) /\ InDomain(fbPrevAmount)) =>
    /\ ~fbResult.threw /\ ~fbPrevResult.threw
    /\ BigLe(fbPrevAmount, fbAmount) => BigLe(fbPrevResult.value, fbResult.value)
    /\ BigLe(fbAmount, fbPrevAmount) => BigLe(fbResult.value, fbPrevResult.value)

C10_Witness ==
  /\ fbPrevAmount = B_max
  /\ fbPrevResult = Return(B_max)
  /\ fbAmount = BigAdd(B_max, Big(1))
  /\ fbResult = Return(B_max)
(***************************************************************************)
(* verifyProof on proofs as the Merkle service may return them, and on     *)
(* tampered copies of accepted ones.                                       *)
(***************************************************************************)
MaxPathLen == 3

LeafStrings == {Dec(Big(5)), Hex(Big(5)), BadString}
SiblingStrings == {Dec(Big(11)), Dec(Big(12)), BadString}
Indices == 0..((2 ^ MaxPathLen) - 1)

Paths == UNION { [1..n -> SiblingStrings] : n \in 0..MaxPathLen }

\* the root a tree has over a leaf and the first n siblings of a path, when
\* all of them are numerals
RECURSIVE TreeRoot(_, _, _, _)
TreeRoot(leaf, path, index, n) ==
  IF n = 0 THEN BigInt(leaf).value
  ELSE IF isLeftChild(index, n - 1)
       THEN hashParent(TreeRoot(leaf, path, index, n - 1), BigInt(path[n]).value)
       ELSE hashParent(BigInt(path[n]).value, TreeRoot(leaf, path, index, n - 1))

Numerals(leaf, path) ==
  /\ ~BigInt(leaf).threw
  /\ \A i \in 1..Len(path) : ~BigInt(path[i]).threw

\* the roots a response may carry along with a leaf, a path and an index: the
\* tree's root in decimal or in hexadecimal, the root of a lower level, a root
\* of another tree, or no numeral
RootStrings(leaf, path, index) ==
  {Dec(Big(0)), BadString} \cup
  (IF Numerals(leaf, path)
   THEN {Hex(TreeRoot(leaf, path, index, Len(path)))} \cup
        { Dec(TreeRoot(leaf, path, index, n)) : n \in 0..Len(path) }
   ELSE {})

Proofs ==
  UNION { { [root |-> root, path |-> path, index |-> index, leaf |-> leaf] :
              root \in RootStrings(leaf, path, index) } :
          leaf \in LeafStrings, path \in Paths, index \in Indices }

VerifyProof ==
  /\ mkResult = NoCall
  /\ \E proof \in Proofs, failAt \in 0..MaxPathLen :
       /\ mkProof' = proof
       /\ mkFailAt' = failAt
       /\ mkResult' = verifyProof(proof, failAt)
  /\ mkBase' = NoProof
  /\ UNCHANGED <<varsNotes, varsBucket, varsAsm, varsCommit, varsStore, varsBatch, varsOracle, varsSdk, varsLoad, varsSerial>>

TamperRoots == {Dec(Big(0)), Dec(Big(5)), Hex(Big(5)), Dec(hashParent(Big(5), Big(11))), BadString}
TamperSiblings == SiblingStrings \cup {Hex(Big(11))}

\* an accepted proof is verified again with another root
TamperRoot ==
  /\ mkResult = Return(TRUE)
  /\ mkBase = NoProof
  /\ mkBase' = mkProof
  /\ \E root \in TamperRoots, failAt \in 0..MaxPathLen :
       /\ root # mkProof.root
       /\ mkProof' = [mkProof EXCEPT !.root = root]
       /\ mkFailAt' = failAt
       /\ mkResult' = verifyProof(mkProof', failAt)
  /\ UNCHANGED <<varsNotes, varsBucket, varsAsm, varsCommit, varsStore, varsBatch, varsOracle, varsSdk, varsLoad, varsSerial>>

\* an accepted proof is verified again with another sibling at one level
TamperPath ==
  /\ mkResult = Return(TRUE)
  /\ mkBase = NoProof
  /\ mkBase' = mkProof
  /\ \E i \in 1..Len(mkProof.path), sibling \in TamperSiblings, failAt \in 0..MaxPathLen :
       /\ sibling # mkProof.path[i]
       /\ mkProof' = [mkProof EXCEPT !.path[i] = sibling]
       /\ mkFailAt' = failAt
       /\ mkResult' = verifyProof(mkProof', failAt)
  /\ UNCHANGED <<varsNotes, varsBucket, varsAsm, varsCommit, varsStore, varsBatch, varsOracle, varsSdk, varsLoad, varsSerial>>

NextMerkle ==
  \/ VerifyProof
  \/ TamperRoot
  \/ TamperPath

\* the value the reconstruction of a proof arrives at after n levels: bit i
\* of index 0 puts the current value left of path[i], bit i 1 right of it
RECURSIVE Reconstructed(_, _)
Reconstructed(proof, n) ==
  IF n = 0 THEN proof.leaf.num
  ELSE IF (proof.index \div (2 ^ (n - 1))) % 2 = 0
       THEN Poseidon(<<Reconstructed(proof, n - 1), proof.path[n].num>>)
       ELSE Poseidon(<<proof.path[n].num, Reconstructed(proof, n - 1)>>)

\* every hash request of the last verifyProof call was answered
OracleAnswered == mkFailAt = 0 \/ mkFailAt > Len(mkProof.path)

NumericallyEqualRoot(proof) ==
  /\ Numerals(proof.leaf, proof.path)
  /\ ~BigInt(proof.root).threw
  /\ Reconstructed(proof, Len(proof.path)) = BigInt(proof.root).value

\* what verifyProof does compare: the spelling of the root with the canonical
\* decimal spelling of the reconstructed value
VerifyProofComparesSpelling ==
  (mkResult # NoCall /\ OracleAnswered) =>
    (mkResult.value <=>
       /\ Numerals(mkProof.leaf, mkProof.path)
       /\ mkProof.root = Dec(Reconstructed(mkProof, Len(mkProof.path))))

\* C6: with the oracle answering, verifyProof returns true exactly when the
\* value reconstructed from leaf, path and the bits of index is numerically
\* equal to root; for index 5 and path [s0, s1, s2] that value is
\* Hash(s2, Hash(Hash(s0, leaf), s1)).
C6_VerifyProofIffNumericallyEqual ==
  (mkResult # NoCall /\ OracleAnswered) =>
    /\ mkResult.value <=> NumericallyEqualRoot(mkProof)
    /\ (mkProof.index = 5 /\ Len(mkProof.path) = 3 /\ Numerals(mkProof.leaf, mkProof.path)
          /\ ~BigInt(mkProof.root).threw) =>
         (mkResult.value <=>
            BigInt(mkProof.root).value =
              Poseidon(<<mkProof.path[3].num,
                         Poseidon(<<Poseidon(<<mkProof.path[1].num, mkProof.leaf.num>>),
                                    mkProof.path[2].num>>)>>))

DifferentValue(s, t) ==
  BigInt(s).threw \/ BigInt(t).threw \/ BigInt(s).value # BigInt(t).value

\* the proof differs from the accepted one in the value of its root alone
RootTampered ==
  /\ DifferentValue(mkProof.root, mkBase.root)
  /\ mkProof = [mkBase EXCEPT !.root = mkProof.root]

\* the proof differs from the accepted one in the value of one sibling alone
PathTampered ==
  \E i \in 1..Len(mkBase.path) :
    /\ DifferentValue(mkProof.path[i], mkBase.path[i])
    /\ mkProof = [mkBase EXCEPT !.path[i] = mkProof.path[i]]

\* C7: a proof obtained from an accepted proof by giving its root, or one of
\* its siblings, a different value is rejected.
C7_TamperedProofRejected ==
  (mkBase # NoProof /\ verifyProof(mkBase, 0) = Return(TRUE)
     /\ (RootTampered \/ PathTampered)) =>
    mkResult = Return(FALSE)

C7_Witness ==
  /\ mkBase # NoProof
  /\ mkBase.index = 5
  /\ Len(mkBase.path) = 3
  /\ mkFailAt = 0
  /\ PathTampered
  /\ mkProof.path[3] # mkBase.path[3]
  /\ mkResult = Return(FALSE)

\* a hash request of the last verifyProof call was made and failed: the
\* service was unreachable or answered with an error
OracleFailed ==
  /\ mkResult # NoCall
  /\ mkFailAt \in 1..Len(mkProof.path)
  /\ ~BigInt(mkProof.leaf).threw
  /\ \A i \in 1..mkFailAt : ~BigInt(mkProof.path[i]).threw

\* what holds: the failure of the service is caught and reads as a rejection
OracleFailureRejects == OracleFailed => mkResult = Return(FALSE)

\* C23: when the hash service fails while a proof is verified, the caller of
\* verifyProof observes an outcome other than the one of a failed
\* verification, which is the value false.
C23_ServiceFailureDistinguishable == OracleFailed => mkResult # Return(FALSE)

\* what holds instead: the path of an accepted proof may have any length,
\* and the bits of index from position path.length on are not looked at
AcceptedWhateverTheHighBits ==
  mkResult = Return(TRUE) =>
    \A index \in Indices :
      index % (2 ^ Len(mkProof.path)) = mkProof.index % (2 ^ Len(mkProof.path)) =>
        verifyProof([mkProof EXCEPT !.index = index], mkFailAt) = Return(TRUE)

\* C27: a proof verifyProof accepts has a path as long as the tree is high
\* and an index below 2^(path.length).
C27_AcceptedProofWellFormed ==
  mkResult = Return(TRUE) =>
    /\ Len(mkProof.path) = TREE_HEIGHT
    /\ mkProof.index < 2 ^ Len(mkProof.path)

(***************************************************************************)
(* prover/inputs: ProofInputsAssembler.assemble, one step for each call it *)
(* awaits.                                                                 *)
(***************************************************************************)
AsmProofs == { p \in Proofs : Len(p.path) <= 1 /\ p.index <= 1 }

AsmOptions ==
  { [recipient |-> r, relayerFee |-> f] : r \in {Undefined, Str("0xabc")},
                                         f \in {Undefined, Big(5)} }

\* a note of the storage variant with the given amount and bucket amount
\* and the commitment of its bucket amount
NoteOfAmount(amount, bucketAmount) ==
  [ secrets |-> [secret |-> Big(1), nullifier |-> Big(2), noteId |-> Big(9)],
    metadata |-> [ assetId |-> Big(0), amount |-> amount, bucketAmount |-> bucketAmount,
                   timestamp |-> 0, spent |-> FALSE,
                   commitment |-> Poseidon(<<Big(1), Big(2), Big(0), bucketAmount>>),
                   nullifierHash |-> Undefined ] ]

\* the notes assemble is called with: those of CoreNotes, notes whose amount
\* lies above the largest bucket (one above it, between two of its
\* multiples, MAX_AMOUNT), and a note whose bucket amount is not
\* findBucket(amount)
AsmNotes ==
  CoreNotes \cup
  { NoteOfAmount(BigAdd(BigPow2(31), Big(1)), BigPow2(31)),
    NoteOfAmount(BigAdd(BigMul(Big(3), BigPow2(31)), Big(5)), BigMul(Big(3), BigPow2(31))),
    NoteOfAmount(BigSub(BigPow2(64), Big(1)), BigSub(BigPow2(64), BigPow2(31))),
    NoteOfAmount(Big(250), Big(300)) }

\* the proof of an honest tree service for a commitment: the commitment as
\* leaf at index 0 under sibling 11, and the root of the two
ProofForCommitment(commitment) ==
  [ root |-> Dec(hashParent(commitment, Big(11))), path |-> <<Dec(Big(11))>>,
    index |-> 0, leaf |-> toString(commitment) ]

\* await this.merkleClient.getProof(note.metadata.commitment): the service
\* answers with the proof of the commitment, with any other proof, or fails
AssembleGetProof ==
  /\ asmPc = "idle"
  /\ \E n \in AsmNotes, options \in AsmOptions :
     \E outcome \in { Return(p) : p \in AsmProofs \cup {ProofForCommitment(n.metadata.commitment)} }
                       \cup {Throw(Error("Merkle service error"))} :
       /\ asmNote' = n
       /\ asmOptions' = options
       /\ asmProof' = outcome
       /\ asmResult' = IF outcome.threw THEN outcome ELSE NoCall
       /\ asmPc' = IF outcome.threw THEN "done" ELSE "verifyProof"
  /\ asmCalls' = <<"getProof">>
  /\ UNCHANGED <<asmValid, asmNullifier, varsNotes, varsBucket, varsMerkle, varsCommit, varsStore, varsBatch, varsOracle, varsSdk, varsLoad, varsSerial>>

\* if (!proofValid) throw new Error('Invalid Merkle proof for note commitment')
InvalidProof(proofValid) ==
  IF proofValid THEN NoCall
  ELSE Throw(Error("Invalid Merkle proof for note commitment"))

\* await this.merkleClient.verifyProof(merkleProof), and the check of its result
AssembleVerifyProof ==
  /\ asmPc = "verifyProof"
  /\ \E failAt \in 0..1 :
       /\ asmValid' = verifyProof(asmProof.value, failAt)
       /\ asmResult' = InvalidProof(asmValid'.value)
       /\ asmPc' = IF asmValid'.value THEN "calculateNullifierHash" ELSE "done"
  /\ asmCalls' = Append(asmCalls, "verifyProof")
  /\ UNCHANGED <<asmNote, asmOptions, asmProof, asmNullifier, varsNotes, varsBucket, varsMerkle, varsCommit, varsStore, varsBatch, varsOracle, varsSdk, varsLoad, varsSerial>>

\* await this.commitmentBuilder.calculateNullifierHash(nullifier, secret)
AssembleCalculateNullifierHash ==
  /\ asmPc = "calculateNullifierHash"
  /\ \E hashOk \in BOOLEAN :
       /\ asmNullifier' = calculateNullifierHash(asmNote.secrets.nullifier,
                                                asmNote.secrets.secret, hashOk)
       /\ asmResult' = IF asmNullifier'.threw THEN asmNullifier' ELSE NoCall
       /\ asmPc' = IF asmNullifier'.threw THEN "done" ELSE "buildCommitment"
  /\ asmCalls' = Append(asmCalls, "calculateNullifierHash")
  /\ UNCHANGED <<asmNote, asmOptions, asmProof, asmValid, varsNotes, varsBucket, varsMerkle, varsCommit, varsStore, varsBatch, varsOracle, varsSdk, varsLoad, varsSerial>>

ProofInputsNullifierAsSecret(n, options, merkleProof, nullifierHash, commitmentOutResult) ==
  [ secret |-> toString(n.secrets.secret),
    nullifierSecret |-> toString(n.secrets.secret),
    noteId |-> toString(n.secrets.noteId),
    amount |-> toString(n.metadata.amount),
    bucketAmount |-> toString(n.metadata.bucketAmount),
    assetId |-> toString(n.metadata.assetId),
    merklePath |-> merkleProof.path,
    merkleIndex |-> merkleProof.index,
    publicInputs |->
      [ root |-> merkleProof.root,
        nullifier |-> toString(nullifierHash),
        commitmentOut |-> toString(commitmentOutResult.commitment),
        recipient |-> IF options.recipient = Undefined THEN Str("0x0") ELSE options.recipient,
        fee |-> toString(IF options.relayerFee = Undefined THEN Big(0) ELSE options.relayerFee) ] ]

\* the ProofInputs object assemble returns
ProofInputs(n, options, merkleProof, nullifierHash, commitmentOutResult) ==
  [ secret |-> toString(n.secrets.secret),
    nullifierSecret |-> toString(n.secrets.nullifier),
    noteId |-> toString(n.secrets.noteId),
    amount |-> toString(n.metadata.amount),
    bucketAmount |-> toString(n.metadata.bucketAmount),
    assetId |-> toString(n.metadata.assetId),
    merklePath |-> merkleProof.path,
    merkleIndex |-> merkleProof.index,
    publicInputs |->
      [ root |-> merkleProof.root,
        nullifier |-> toString(nullifierHash),
        commitmentOut |-> toString(commitmentOutResult.commitment),
        recipient |-> IF options.recipient = Undefined THEN Str("0x0") ELSE options.recipient,
        fee |-> toString(IF options.relayerFee = Undefined THEN Big(0) ELSE options.relayerFee) ] ]

\* await this.commitmentBuilder.buildCommitment(...), then the return
AssembleBuildCommitment ==
  /\ asmPc = "buildCommitment"
  /\ \E hashOk \in BOOLEAN :
       LET commitmentOutResult ==
             buildCommitment(asmNote.secrets.secret, asmNote.secrets.nullifier,
                             asmNote.metadata.assetId, asmNote.metadata.bucketAmount, hashOk)
       IN asmResult' = IF commitmentOutResult.threw THEN commitmentOutResult
                       ELSE Return(ProofInputs(asmNote, asmOptions, asmProof.value,
                                               asmNullifier.value, commitmentOutResult.value))
  /\ asmPc' = "done"
  /\ asmCalls' = Append(asmCalls, "buildCommitment")
  /\ UNCHANGED <<asmNote, asmOptions, asmProof, asmValid, asmNullifier,
                 varsNotes, varsBucket, varsMerkle, varsCommit, varsStore, varsBatch, varsOracle, varsSdk, varsLoad, varsSerial>>

NextAsm ==
  \/ AssembleGetProof
  \/ AssembleVerifyProof
  \/ AssembleCalculateNullifierHash
  \/ AssembleBuildCommitment

\* assemble(note, options) as one call; env: the outcome of getProof, the
\* hash request of verifyProof that fails, and whether the oracle answers
\* calculateNullifierHash and buildCommitment
assemble(n, options, env) ==
  LET merkleProof == env.proof
      proofValid == verifyProof(merkleProof.value, env.failAt)
      nullifierHash == calculateNullifierHash(n.secrets.nullifier, n.secrets.secret,
                                              env.nullifierOk)
      commitmentOutResult == buildCommitment(n.secrets.secret, n.secrets.nullifier,
                                             n.metadata.assetId, n.metadata.bucketAmount,
                                             env.commitmentOk)
  IN IF merkleProof.threw THEN merkleProof
     ELSE IF InvalidProof(proofValid.value).threw THEN InvalidProof(proofValid.value)
     ELSE IF nullifierHash.threw THEN nullifierHash
     ELSE IF commitmentOutResult.threw THEN commitmentOutResult
     ELSE Return(ProofInputs(n, options, merkleProof.value, nullifierHash.value,
                             commitmentOutResult.value))

\* a proof of leaf 5 at index 0 under sibling 11 with the given root
ProofOf(root) ==
  [root |-> root, path |-> <<Dec(Big(11))>>, index |-> 0, leaf |-> Dec(Big(5))]

\* what the services answer one assemble call: all goes well, the proof does
\* not verify, the Merkle service fails, the oracle fails a hash
AsmEnvs ==
  { [ proof |-> Return(ProofOf(Dec(hashParent(Big(5), Big(11))))), failAt |-> 0,
      nullifierOk |-> TRUE, commitmentOk |-> TRUE ],
    [ proof |-> Return(ProofOf(Dec(Big(0)))), failAt |-> 0,
      nullifierOk |-> TRUE, commitmentOk |-> TRUE ],
    [ proof |-> Throw(Error("Merkle service error")), failAt |-> 0,
      nullifierOk |-> TRUE, commitmentOk |-> TRUE ],
    [ proof |-> Return(ProofOf(Dec(hashParent(Big(5), Big(11))))), failAt |-> 0,
      nullifierOk |-> TRUE, commitmentOk |-> FALSE ] }

\* the steps of assemble arrive at what the one call gives
AssembleStepsAreAssemble ==
  asmPc = "done" =>
    \E failAt \in 0..1, nullifierOk \in BOOLEAN, commitmentOk \in BOOLEAN :
      asmResult = assemble(asmNote, asmOptions,
                           [ proof |-> asmProof, failAt |-> failAt,
                             nullifierOk |-> nullifierOk, commitmentOk |-> commitmentOk ])

\* assemble has returned its ProofInputs
Assembled == asmPc = "done" /\ ~asmResult.threw

\* the inputs other than the recipient: those of the note, of the proof that
\* was verified, of the commitment scheme, and the fee
AssembledFromNoteAndProof ==
  LET inputs == asmResult.value
      public == inputs.publicInputs
  IN /\ asmValid = Return(TRUE)
     /\ public.root = asmProof.value.root
     /\ inputs.merklePath = asmProof.value.path
     /\ inputs.merkleIndex = asmProof.value.index
     /\ public.nullifier = Dec(Poseidon(<<asmNote.secrets.nullifier, asmNote.secrets.secret>>))
     /\ public.commitmentOut =
          Dec(Poseidon(<<asmNote.secrets.secret, asmNote.secrets.nullifier,
                         asmNote.metadata.assetId, findBucket(asmNote.metadata.bucketAmount).value>>))
     /\ public.fee = IF asmOptions.relayerFee = Undefined THEN Dec(Big(0))
                     ELSE Dec(asmOptions.relayerFee)
     /\ inputs.secret = Dec(asmNote.secrets.secret)
     /\ inputs.nullifierSecret = Dec(asmNote.secrets.nullifier)
     /\ inputs.noteId = Dec(asmNote.secrets.noteId)
     /\ inputs.amount = Dec(asmNote.metadata.amount)
     /\ inputs.bucketAmount = Dec(asmNote.metadata.bucketAmount)
     /\ inputs.assetId = Dec(asmNote.metadata.assetId)

AssembledRootIsOfProofLeaf ==
  Assembled =>
    LET proof == asmProof.value
    IN /\ asmResult.value.merklePath = proof.path
       /\ asmResult.value.merkleIndex = proof.index
       /\ asmResult.value.publicInputs.root =
            toString(TreeRoot(proof.leaf, proof.path, proof.index, Len(proof.path)))

\* C33: assemble returns proof inputs only if the leaf of the proof it
\* verified is the commitment of the note
C33_AssembledProofIsForNote ==
  Assembled => BigInt(asmProof.value.leaf) = Return(asmNote.metadata.commitment)

\* assemble returned for the proof of the note's own commitment
AssembledOwnProof ==
  /\ Assembled
  /\ asmProof.value = ProofForCommitment(asmNote.metadata.commitment)

\* the data-model invariant of a note, with the hash of the commitment
\* scheme: valid secrets, asset and amount, bucketAmount = findBucket(amount)
\* and commitment = hash([secret, nullifier, assetId, bucketAmount])
DataModelInvariant(n) ==
  /\ ~validateInputs(n.secrets.secret, n.secrets.nullifier, n.metadata.assetId,
                     n.metadata.amount).threw
  /\ findBucket(n.metadata.amount) = Return(n.metadata.bucketAmount)
  /\ n.metadata.commitment = Poseidon(<<n.secrets.secret, n.secrets.nullifier,
                                        n.metadata.assetId, n.metadata.bucketAmount>>)

\* C36: for a note that satisfies the data-model invariant, the commitmentOut
\* of the inputs assemble returns is the note's own commitment
C36_CommitmentOutIsOwnCommitment ==
  (Assembled /\ DataModelInvariant(asmNote)) =>
    asmResult.value.publicInputs.commitmentOut = toString(asmNote.metadata.commitment)

\* assemble returned for a note whose amount was rounded down to a multiple
\* of the largest bucket
C36_Witness ==
  /\ Assembled
  /\ DataModelInvariant(asmNote)
  /\ BigGt(asmNote.metadata.amount, BigPow2(31))
  /\ asmNote.metadata.bucketAmount # asmNote.metadata.amount
  /\ asmResult.value.publicInputs.commitmentOut = toString(asmNote.metadata.commitment)

\* for a note whose bucket amount is not findBucket(amount), commitmentOut is
\* the commitment of findBucket(bucketAmount) and not the note's own
CommitmentOutOfOtherBucket ==
  (Assembled /\ asmNote.metadata.bucketAmount = Big(300)) =>
    asmResult.value.publicInputs.commitmentOut # toString(asmNote.metadata.commitment)

CommitmentSchemeCalls == {"calculateNullifierHash", "buildCommitment"}

\* the fetched proof was rejected by verifyProof
ProofRejected == asmValid = Return(FALSE)

\* once the proof is rejected the call is over with an exception, no
\* ProofInputs, and verifyProof as the last call made
RejectedProofFailsClosed ==
  ProofRejected =>
    /\ asmPc = "done"
    /\ asmResult.threw
    /\ asmCalls = <<"getProof", "verifyProof">>

\* C8: once the fetched proof is rejected, assemble is over: it has thrown
\* ValidationInvalidProof, returned no ProofInputs, and made no call of
\* calculateNullifierHash or buildCommitment.
C8_RejectedProofFailsWithInvalidProof ==
  ProofRejected =>
    /\ RejectedProofFailsClosed
    /\ \A i \in 1..Len(asmCalls) : asmCalls[i] \notin CommitmentSchemeCalls
    /\ asmResult.threw
    /\ asmResult.error.code = VALIDATION_INVALID_PROOF

(***************************************************************************)
(* CommitmentBuilder: buildCommitment, calculateNullifierHash and          *)
(* verifyCommitment, with the log of the oracle invocations they make.     *)
(***************************************************************************)
CbSecrets == {Big(-1), Big(1), Big(2), TWO_256}
CbAssetIds == {Big(-1), Big(0)}
CbAmounts == {Big(0), Big(250), BigAdd(B_max, Big(1)), MAX_AMOUNT, BigAdd(MAX_AMOUNT, Big(1))}

CbArgs(secret, nullifier, assetId, amount, hashOk) ==
  [secret |-> secret, nullifier |-> nullifier, assetId |-> assetId, amount |-> amount,
   hashOk |-> hashOk]

BuildCommitment ==
  /\ cbOp = "none"
  /\ \E secret \in CbSecrets, nullifier \in CbSecrets, assetId \in CbAssetIds,
        amount \in CbAmounts, hashOk \in BOOLEAN :
       /\ cbArgs' = CbArgs(secret, nullifier, assetId, amount, hashOk)
       /\ cbResult' = buildCommitment(secret, nullifier, assetId, amount, hashOk)
       /\ cbQueries' = cbQueries \o buildCommitmentQueries(secret, nullifier, assetId, amount)
  /\ cbOp' = "buildCommitment"
  /\ cbBuilt' = NoArgs
  /\ UNCHANGED <<varsNotes, varsBucket, varsMerkle, varsAsm, varsStore, varsBatch, varsOracle, varsSdk, varsLoad, varsSerial>>

CalculateNullifierHash ==
  /\ cbOp = "none"
  /\ \E secret \in CbSecrets, nullifier \in CbSecrets, hashOk \in BOOLEAN :
       /\ cbArgs' = CbArgs(secret, nullifier, Big(0), Big(0), hashOk)
       /\ cbResult' = calculateNullifierHash(nullifier, secret, hashOk)
       /\ cbQueries' = cbQueries \o calculateNullifierHashQueries(nullifier, secret)
  /\ cbOp' = "calculateNullifierHash"
  /\ cbBuilt' = NoArgs
  /\ UNCHANGED <<varsNotes, varsBucket, varsMerkle, varsAsm, varsStore, varsBatch, varsOracle, varsSdk, varsLoad, varsSerial>>

\* the commitments verifyCommitment is given: the one just built, or another
GivenCommitments ==
  {Big(7)} \cup (IF cbOp = "buildCommitment" /\ ~cbResult.threw
                  THEN {cbResult.value.commitment} ELSE {})

\* verifyCommitment as a first call with any arguments, or after a
\* buildCommitment with its secret, nullifier and asset id and any amount
VerifyCommitment ==
  /\ cbOp \in {"none", "buildCommitment"}
  /\ \E commitment \in GivenCommitments,
        secret \in (IF cbOp = "none" THEN CbSecrets ELSE {cbArgs.secret}),
        nullifier \in (IF cbOp = "none" THEN CbSecrets ELSE {cbArgs.nullifier}),
        assetId \in (IF cbOp = "none" THEN CbAssetIds ELSE {cbArgs.assetId}),
        amount \in CbAmounts, hashOk \in BOOLEAN :
       /\ cbArgs' = [secret |-> secret, nullifier |-> nullifier, assetId |-> assetId,
                     amount |-> amount, hashOk |-> hashOk, commitment |-> commitment]
       /\ cbResult' = verifyCommitment(commitment, secret, nullifier, assetId, amount, hashOk)
       /\ cbQueries' = cbQueries \o verifyCommitmentQueries(secret, nullifier, assetId, amount)
  /\ cbOp' = "verifyCommitment"
  /\ cbBuilt' = IF cbOp = "buildCommitment"
                THEN [args |-> cbArgs, outcome |-> cbResult] ELSE NoArgs
  /\ UNCHANGED <<varsNotes, varsBucket, varsMerkle, varsAsm, varsStore, varsBatch, varsOracle, varsSdk, varsLoad, varsSerial>>

\* the arguments of a buildCommitment call violate one of its preconditions
InvalidBuildInputs(a) ==
  \/ BigLt(a.secret, Big(0)) \/ BigGe(a.secret, TWO_256)
  \/ BigLt(a.nullifier, Big(0)) \/ BigGe(a.nullifier, TWO_256)
  \/ a.secret = a.nullifier
  \/ BigLt(a.assetId, Big(0))
  \/ BigLe(a.amount, Big(0))
  \/ BigGt(a.amount, MAX_AMOUNT)

\* what buildCommitment does: on invalid arguments a plain Error and no
\* oracle invocation; otherwise, the oracle answering, the untagged hash of
\* [secret, nullifier, assetId, findBucket(amount)] and that bucket
BuildCommitmentValidates ==
  cbOp = "buildCommitment" =>
    IF InvalidBuildInputs(cbArgs)
    THEN cbResult.threw /\ cbResult.error.name = "Error" /\ cbQueries = <<>>
    ELSE /\ Len(cbQueries) = 1
         /\ cbArgs.hashOk =>
              /\ ~cbResult.threw
              /\ cbResult.value.bucketAmount = findBucket(cbArgs.amount).value
              /\ cbResult.value.commitment =
                   Poseidon(<<cbArgs.secret, cbArgs.nullifier, cbArgs.assetId,
                              findBucket(cbArgs.amount).value>>)

\* C11: buildCommitment fails with CryptoInvalidInput and invokes no oracle
\* when an argument is invalid, and otherwise returns bucketAmount =
\* findBucket(amount) and commitment = Hash(DOMAIN_COMMITMENT, [secret,
\* nullifier, assetId, bucketAmount]).
C11_BuildCommitmentValidatesInputs ==
  cbOp = "buildCommitment" =>
    IF InvalidBuildInputs(cbArgs)
    THEN /\ cbResult.threw
         /\ cbResult.error.code = CRYPTO_INVALID_INPUT
         /\ cbQueries = <<>>
    ELSE cbArgs.hashOk =>
           /\ ~cbResult.threw
           /\ cbResult.value.bucketAmount = findBucket(cbArgs.amount).value
           /\ cbResult.value.commitment =
                HashDomain(DOMAIN_COMMITMENT,
                           <<cbArgs.secret, cbArgs.nullifier, cbArgs.assetId,
                             findBucket(cbArgs.amount).value>>)

\* verifyCommitment was given the commitment and the arguments of the
\* buildCommitment before it, which succeeded
RoundTrip ==
  /\ cbOp = "verifyCommitment"
  /\ cbBuilt # NoArgs
  /\ ~cbBuilt.outcome.threw
  /\ cbArgs.commitment = cbBuilt.outcome.value.commitment
  /\ cbArgs.secret = cbBuilt.args.secret
  /\ cbArgs.nullifier = cbBuilt.args.nullifier
  /\ cbArgs.assetId = cbBuilt.args.assetId
  /\ cbArgs.amount = cbBuilt.args.amount

\* C12: verifyCommitment of the commitment buildCommitment returned, with the
\* same arguments and the oracle answering, is true.
C12_VerifyAcceptsBuiltCommitment ==
  (RoundTrip /\ cbArgs.hashOk) => cbResult = Return(TRUE)

C12_Witness ==
  /\ RoundTrip
  /\ cbArgs.hashOk
  /\ cbArgs.amount = Big(250)
  /\ cbBuilt.outcome.value.bucketAmount = Big(256)
  /\ cbResult = Return(TRUE)

\* C13: verifyCommitment returns a boolean for every input, and false when
\* findBucket rejects the amount or the oracle fails.
C13_VerifyCommitmentNeverThrows ==
  cbOp = "verifyCommitment" =>
    /\ ~cbResult.threw
    /\ cbResult.value \in BOOLEAN
    /\ (findBucket(cbArgs.amount).threw \/ ~cbArgs.hashOk) => cbResult.value = FALSE

C13_Witness ==
  /\ cbOp = "verifyCommitment"
  /\ BigGt(cbArgs.amount, MAX_AMOUNT)
  /\ cbArgs.secret = cbArgs.nullifier
  /\ cbResult = Return(FALSE)

\* the tag an invocation made for a purpose has to carry
TagOf(purpose) == IF purpose = "commitment" THEN DOMAIN_COMMITMENT ELSE DOMAIN_NULLIFIER

\* C15: every oracle invocation carries the domain tag of what it is made
\* for, the commitment tag and the nullifier tag differ, and no invocation
\* for a commitment is the same query as one for a nullifier hash.
C15_InvocationsCarryDomainTag ==
  /\ DOMAIN_COMMITMENT # DOMAIN_NULLIFIER
  /\ \A i \in 1..Len(cbQueries) :
       /\ "domain" \in DOMAIN cbQueries[i].query
       /\ cbQueries[i].query.domain = TagOf(cbQueries[i].purpose)
  /\ \A i, j \in 1..Len(cbQueries) :
       cbQueries[i].purpose # cbQueries[j].purpose => cbQueries[i].query # cbQueries[j].query

NextCommit ==
  \/ BuildCommitment
  \/ CalculateNullifierHash
  \/ VerifyCommitment

(***************************************************************************)
(* StorageManager: sessions, and storeNote and markAsSpent calls that may   *)
(* overlap.  A call runs up to its next await in one step.  Three backends: *)
(* "node" and "browser" are the adapters of the adapter-based manager,      *)
(* "idb" is the manager that uses IndexedDB directly.  The environment, and *)
(* with it the backend, is the same in every session of a run; the first    *)
(* session is that of one wallet, later ones of any.                        *)
(***************************************************************************)
MaxStoreOps == 3
MaxSessions == 2

Backends == {"node", "browser", "idb"}

WalletSignatures ==
  { [head |-> "0xaaaa", tail |-> "1"], [head |-> "0xaaaa", tail |-> "2"],
    [head |-> "0xbbbb", tail |-> "1"] }

\* the note createNote returns at time 0 for an amount whose bucket is 256
CreatedNote(secret, nullifier, assetId, amount) ==
  [ secrets |-> [secret |-> secret, nullifier |-> nullifier,
                 noteId |-> hashNoteId(secret, nullifier)],
    metadata |-> [ assetId |-> assetId, amount |-> amount, bucketAmount |-> Big(256),
                   timestamp |-> 0, spent |-> FALSE,
                   commitment |-> Poseidon(<<secret, nullifier, assetId, Big(256)>>),
                   nullifierHash |-> Undefined ] ]

\* notes as createNote makes them: two of asset 0 with the same secrets and
\* bucket, hence the same commitment, and one of asset 1
StoreNotes ==
  { CreatedNote(Big(5), Big(6), Big(0), Big(250)),
    CreatedNote(Big(5), Big(6), Big(0), Big(251)),
    CreatedNote(Big(8), Big(9), Big(1), Big(250)) }

\* they are the notes createNote of core/notes returns
StoreNotesAreCreated ==
  \A n \in StoreNotes :
    createNoteCore(n.secrets.secret, n.secrets.nullifier, n.metadata.assetId,
                   n.metadata.amount, 0, TRUE) = Return(n)

StoreKeys == { toString(n.metadata.commitment) : n \in StoreNotes }

IVs == {1}

InFlight(task) == task.pc \notin {"idle", "done"}

\* adapter.put(key, value), and where the backend keeps it
Put(store, k, r) == [c \in DOMAIN store \cup {k} |-> IF c = k THEN r ELSE store[c]]

Persist(disk, session, store) ==
  IF session.backend = "node"
  THEN [disk EXCEPT !.files[session.walletSignature.head] = store]
  ELSE [disk EXCEPT !.idb = store]

\* a call begins: alone it opens a new batch in slot 1, and while the call in
\* slot 1 is in flight it joins the batch in slot 2
Begin(task, opd) ==
  IF \A i \in 1..2 : ~InFlight(stTasks[i])
  THEN /\ stTasks' = [i \in 1..2 |-> IF i = 1 THEN task ELSE Idle]
       /\ stBatch' = [base |-> stStore, ops |-> <<opd>>]
  ELSE /\ InFlight(stTasks[1])
       /\ stTasks[2] = Idle
       /\ stTasks' = [stTasks EXCEPT ![2] = task]
       /\ stBatch' = [stBatch EXCEPT !.ops = Append(@, opd)]

\* calls made before initialize has completed are explored as the first calls
\* of a run
EarlyCallsFirst == stSession.pc = "ready" \/ stOps = 0

\* new StorageManager() in a new session, on the backend of the environment;
\* a session in which no call was made is not followed by another
Construct ==
  /\ stSessions < MaxSessions
  /\ stSessions = 0 \/ stOps > 0
  /\ \A i \in 1..2 : ~InFlight(stTasks[i])
  /\ \E backend \in (IF stSessions = 0 THEN Backends ELSE {stSession.backend}) :
       stSession' = Constructed(backend)
  /\ stStore' = EmptyStore
  /\ stTasks' = [i \in 1..2 |-> Idle]
  /\ stBatch' = [base |-> EmptyStore, ops |-> <<>>]
  /\ stWritten' = EmptyStore
  /\ stLast' = [op |-> "none"]
  /\ stLog' = {}
  /\ stSessions' = stSessions + 1
  /\ UNCHANGED <<stDisk, stOps, varsNotes, varsBucket, varsMerkle, varsAsm, varsCommit, varsBatch, varsOracle, varsSdk, varsLoad, varsSerial>>

\* StorageManager.initialize(walletSignature) up to its await of deriveStorageKey
InitializeBegin ==
  /\ stSession.pc = "constructed"
  /\ \E walletSignature \in (IF stSessions = 1 THEN {[head |-> "0xaaaa", tail |-> "1"]}
                             ELSE WalletSignatures) :
       stSession' = [stSession EXCEPT !.pc = "deriveStorageKey",
                                      !.walletSignature = walletSignature]
  /\ stLast' = [op |-> "none"]
  /\ UNCHANGED <<stStore, stDisk, stTasks, stBatch, stWritten, stLog, stOps, stSessions,
                 varsNotes, varsBucket, varsMerkle, varsAsm, varsCommit, varsBatch, varsOracle, varsSdk, varsLoad, varsSerial>>

\* initialize after deriveStorageKey: storageKey is set; in Node the adapter
\* is constructed and assigned and the timer is awaited, and the file is read
\* in this step, as in the sessions whose initFileSystem() completes before
\* the timer fires (LdTimer has the others); otherwise the opening of the
\* database is awaited
InitializeStorageKey ==
  /\ stSession.pc = "deriveStorageKey"
  /\ stSession' = [stSession EXCEPT !.pc = "opening",
                                    !.storageKey = deriveStorageKey(stSession.walletSignature),
                                    !.adapter = (stSession.backend = "node")]
  /\ stStore' = IF stSession.backend = "node"
                THEN JsonFile(stDisk.files[stSession.walletSignature.head])
                ELSE stStore
  /\ stLast' = [op |-> "none"]
  /\ UNCHANGED <<stDisk, stTasks, stBatch, stWritten, stLog, stOps, stSessions,
                 varsNotes, varsBucket, varsMerkle, varsAsm, varsCommit, varsBatch, varsOracle, varsSdk, varsLoad, varsSerial>>

\* initialize to its end: the browser adapter, or the database, is assigned
Initialize ==
  /\ stSession.pc = "opening"
  /\ stSession' = [stSession EXCEPT !.pc = "ready", !.adapter = TRUE]
  /\ stStore' = IF stSession.backend = "node" THEN stStore ELSE stDisk.idb
  /\ stLast' = [op |-> "none"]
  /\ UNCHANGED <<stDisk, stTasks, stBatch, stWritten, stLog, stOps, stSessions,
                 varsNotes, varsBucket, varsMerkle, varsAsm, varsCommit, varsBatch, varsOracle, varsSdk, varsLoad, varsSerial>>

\* ShadeSDK.createNote: noteEngine.createNote, then storage.storeNote up to
\* its await of encrypt
StoreNoteBegin ==
  /\ stSession.backend # "none"
  /\ EarlyCallsFirst
  /\ stOps < MaxStoreOps
  /\ \E n \in StoreNotes, iv \in IVs :
       LET created == [n EXCEPT !.metadata.timestamp = clock]
           opd == [op |-> "storeNote", note |-> created, iv |-> iv,
                   commitment |-> toString(created.metadata.commitment)]
           initialized == RequireInitialized(stSession, "storeNote")
       IN /\ IF initialized.threw
             THEN /\ stLast' = [op |-> "storeNote", arg |-> opd.commitment,
                                outcome |-> initialized]
                  /\ UNCHANGED <<stTasks, stBatch>>
             ELSE /\ Begin([ pc |-> "encrypting", op |-> opd,
                             encryptedSecrets |-> encrypt(stSession.storageKey,
                                                          secretsJson(created.secrets), iv) ],
                           opd)
                  /\ stLast' = [op |-> "none"]
          /\ stLog' = stLog \cup buildCommitmentLog(created.secrets.secret,
                                                    created.secrets.nullifier,
                                                    created.metadata.assetId,
                                                    created.metadata.amount)
  /\ stOps' = stOps + 1
  /\ UNCHANGED <<stSession, stStore, stDisk, stWritten, stSessions,
                 varsNotes, varsBucket, varsMerkle, varsAsm, varsCommit, varsBatch, varsOracle, varsSdk, varsLoad, varsSerial>>

\* storeNote after encrypt: the record is built and put; with IndexedDB the
\* put waits for a read-write transaction that is open
StoreNotePut ==
  \E i \in 1..2 :
    /\ stTasks[i].pc = "encrypting"
    /\ stSession.backend = "idb" => \A j \in 1..2 : stTasks[j].pc # "tx"
    /\ LET storedNote == StoredNote(stTasks[i].op.note, stTasks[i].encryptedSecrets, clock)
       IN /\ stStore' = Put(stStore, storedNote.commitment, storedNote)
          /\ stDisk' = Persist(stDisk, stSession, stStore')
          /\ stWritten' = Put(stWritten, storedNote.commitment, stTasks[i].op.note)
          /\ stLog' = stLog \cup storeNoteLog(storedNote)
          /\ stTasks' = [stTasks EXCEPT ![i] = [ pc |-> "done", op |-> stTasks[i].op,
                                                 write |-> "persisted",
                                                 outcome |-> Return(storedNote.commitment) ]]
    /\ stLast' = [op |-> "none"]
    /\ UNCHANGED <<stSession, stBatch, stOps, stSessions,
                   varsNotes, varsBucket, varsMerkle, varsAsm, varsCommit, varsBatch, varsOracle, varsSdk, varsLoad, varsSerial>>

\* markAsSpent up to its first await: the adapters read the record at once,
\* IndexedDB asks for a read-write transaction
MarkAsSpentBegin ==
  /\ stSession.backend # "none"
  /\ EarlyCallsFirst
  /\ stOps < MaxStoreOps
  /\ \E commitment \in StoreKeys :
       LET opd == [op |-> "markAsSpent", commitment |-> commitment]
           initialized == RequireInitialized(stSession, "markAsSpent")
       IN IF initialized.threw
          THEN /\ stLast' = [op |-> "markAsSpent", arg |-> commitment,
                             outcome |-> initialized]
               /\ UNCHANGED <<stTasks, stBatch>>
          ELSE /\ Begin(IF stSession.backend = "idb" THEN [pc |-> "waiting", op |-> opd]
                        ELSE IF commitment \in DOMAIN stStore
                        THEN [pc |-> "read", op |-> opd, stored |-> stStore[commitment]]
                        ELSE [pc |-> "read", op |-> opd, stored |-> Null], opd)
               /\ stLast' = [op |-> "none"]
  /\ stOps' = stOps + 1
  /\ UNCHANGED <<stSession, stStore, stDisk, stWritten, stLog, stSessions,
                 varsNotes, varsBucket, varsMerkle, varsAsm, varsCommit, varsBatch, varsOracle, varsSdk, varsLoad, varsSerial>>

\* IndexedDB: the transaction starts when no other is open, and store.get reads
MarkAsSpentTxGet ==
  \E i \in 1..2 :
    /\ stTasks[i].pc = "waiting"
    /\ \A j \in 1..2 : stTasks[j].pc # "tx"
    /\ stTasks' = [stTasks EXCEPT ![i] =
         [ pc |-> "tx", op |-> stTasks[i].op,
           stored |-> IF stTasks[i].op.commitment \in DOMAIN stStore
                      THEN stStore[stTasks[i].op.commitment] ELSE Null ]]
    /\ stLast' = [op |-> "none"]
    /\ UNCHANGED <<stSession, stStore, stDisk, stBatch, stWritten, stLog, stOps, stSessions,
                   varsNotes, varsBucket, varsMerkle, varsAsm, varsCommit, varsBatch, varsOracle, varsSdk, varsLoad, varsSerial>>

\* markAsSpent after the read: if (stored) { spent = true; updatedAt = now; put }
MarkAsSpentPut ==
  \E i \in 1..2 :
    /\ stTasks[i].pc \in {"read", "tx"}
    /\ LET commitment == stTasks[i].op.commitment
           stored == stTasks[i].stored
       IN IF stored = Null
          THEN UNCHANGED <<stStore, stDisk, stWritten>>
          ELSE /\ stStore' = Put(stStore, commitment, Spend(stored, clock))
               /\ stDisk' = Persist(stDisk, stSession, stStore')
               /\ stWritten' =
                    IF commitment \in DOMAIN stStore /\ stStore[commitment] = stored
                    THEN stWritten
                    ELSE [c \in DOMAIN stWritten \ {commitment} |-> stWritten[c]]
    /\ stTasks' = [stTasks EXCEPT ![i] = [ pc |-> "done", op |-> stTasks[i].op,
                                           write |-> IF stTasks[i].stored = Null THEN "none"
                                                     ELSE "persisted",
                                           outcome |-> Return(Undefined) ]]
    /\ stLast' = [op |-> "none"]
    /\ UNCHANGED <<stSession, stBatch, stLog, stOps, stSessions,
                   varsNotes, varsBucket, varsMerkle, varsAsm, varsCommit, varsBatch, varsOracle, varsSdk, varsLoad, varsSerial>>

\* the write of the backend fails (the disk is full, the quota is exceeded):
\* saveToFile catches the error of writeFileSync and warns, db.put and
\* store.put reject
WriteFailure == [name |-> "DOMException", code |-> 0, message |-> "QuotaExceededError"]

\* storeNote after encrypt when the write of the put fails, for a call that
\* runs alone in the first session: the Node adapter has set the record in its Map and put
\* resolves; the put of a database rejects and storeNote with it
StoreNotePutFails ==
  /\ stTasks[1].pc = "encrypting"
  /\ Len(stBatch.ops) = 1
  /\ stSessions = 1
  /\ LET storedNote == StoredNote(stTasks[1].op.note, stTasks[1].encryptedSecrets, clock)
     IN IF stSession.backend = "node"
        THEN /\ stStore' = Put(stStore, storedNote.commitment, storedNote)
             /\ stWritten' = Put(stWritten, storedNote.commitment, stTasks[1].op.note)
             /\ stLog' = stLog \cup storeNoteLog(storedNote)
             /\ stTasks' = [stTasks EXCEPT ![1] = [ pc |-> "done", op |-> stTasks[1].op,
                                                    write |-> "failed",
                                                    outcome |-> Return(storedNote.commitment) ]]
        ELSE /\ stTasks' = [stTasks EXCEPT ![1] = [ pc |-> "done", op |-> stTasks[1].op,
                                                    write |-> "failed",
                                                    outcome |-> Throw(WriteFailure) ]]
             /\ UNCHANGED <<stStore, stWritten, stLog>>
  /\ stLast' = [op |-> "none"]
  /\ UNCHANGED <<stSession, stDisk, stBatch, stOps, stSessions,
                 varsNotes, varsBucket, varsMerkle, varsAsm, varsCommit, varsBatch, varsOracle, varsSdk, varsLoad, varsSerial>>

\* markAsSpent after the read of a record when the write of the put fails,
\* for a call that runs alone in the first session
MarkAsSpentPutFails ==
  /\ stTasks[1].pc \in {"read", "tx"}
  /\ stSessions = 1
  /\ Len(stBatch.ops) = 1
  /\ stTasks[1].stored # Null
  /\ IF stSession.backend = "node"
     THEN /\ stStore' = Put(stStore, stTasks[1].op.commitment, Spend(stTasks[1].stored, clock))
          /\ stTasks' = [stTasks EXCEPT ![1] = [ pc |-> "done", op |-> stTasks[1].op,
                                                 write |-> "failed",
                                                 outcome |-> Return(Undefined) ]]
     ELSE /\ stTasks' = [stTasks EXCEPT ![1] = [ pc |-> "done", op |-> stTasks[1].op,
                                                 write |-> "failed",
                                                 outcome |-> Throw(WriteFailure) ]]
          /\ UNCHANGED stStore
  /\ stLast' = [op |-> "none"]
  /\ UNCHANGED <<stSession, stDisk, stBatch, stWritten, stLog, stOps, stSessions,
                 varsNotes, varsBucket, varsMerkle, varsAsm, varsCommit, varsBatch, varsOracle, varsSdk, varsLoad, varsSerial>>

\* getNote(commitment), called when no storeNote or markAsSpent is in flight
GetNote ==
  /\ stSession.backend # "none"
  /\ EarlyCallsFirst
  /\ \A i \in 1..2 : ~InFlight(stTasks[i])
  /\ \E commitment \in StoreKeys \cup {toString(Big(7))} :
       stLast' = [ op |-> "getNote", arg |-> commitment,
                   outcome |-> IF RequireInitialized(stSession, "getNote").threw
                               THEN RequireInitialized(stSession, "getNote")
                               ELSE getNote(stStore, stSession.storageKey, commitment) ]
  /\ UNCHANGED <<stSession, stStore, stDisk, stTasks, stBatch, stWritten, stLog, stOps,
                 stSessions, varsNotes, varsBucket, varsMerkle, varsAsm, varsCommit, varsBatch, varsOracle, varsSdk, varsLoad, varsSerial>>

\* getUnspentNotes(assetId?), called when no storeNote or markAsSpent is in flight
GetUnspentNotes ==
  /\ stSession.backend # "none"
  /\ EarlyCallsFirst
  /\ \A i \in 1..2 : ~InFlight(stTasks[i])
  /\ \E assetId \in {Undefined, Big(0)} :
       stLast' = [ op |-> "getUnspentNotes", arg |-> assetId,
                   outcome |-> IF RequireInitialized(stSession, "getUnspentNotes").threw
                               THEN RequireInitialized(stSession, "getUnspentNotes")
                               ELSE getUnspentNotes(stStore, stSession.storageKey, assetId) ]
  /\ UNCHANGED <<stSession, stStore, stDisk, stTasks, stBatch, stWritten, stLog, stOps,
                 stSessions, varsNotes, varsBucket, varsMerkle, varsAsm, varsCommit, varsBatch, varsOracle, varsSdk, varsLoad, varsSerial>>

\* ShadeSDK.prepareSpendProof(commitment, options) of the single-wallet SDK
\* as one call: storage.getNote, the two guards, noteEngine.prepareForSpending
\* and proofAssembler.assemble; env is what the services answer
prepareSpendProof(session, store, commitment, options, env) ==
  LET loaded == IF RequireInitialized(session, "getNote").threw
                THEN RequireInitialized(session, "getNote")
                ELSE getNote(store, session.storageKey, commitment)
  IN IF loaded.threw THEN loaded
     ELSE IF loaded.value = Null THEN Throw(Error("Note not found: ${commitment}"))
     ELSE IF loaded.value.metadata.spent THEN Throw(Error("Note already spent"))
     ELSE LET preparedNote == prepareForSpendingCore(loaded.value, env.nullifierOk).outcome
          IN IF preparedNote.threw THEN preparedNote
             ELSE LET proofInputs == assemble(preparedNote.value, options, env)
                  IN IF proofInputs.threw THEN proofInputs
                     ELSE Return([ note |-> preparedNote.value,
                                   proofInputs |-> proofInputs.value ])

\* prepareSpendProof(commitment), called in the first session after a
\* storeNote or markAsSpent has returned, when none is in flight and nothing
\* was read since
PrepareSpendProof ==
  /\ stSession.pc = "ready"
  /\ stSessions = 1
  /\ stLast.op = "none"
  /\ \E i \in 1..2 : stTasks[i].pc = "done"
  /\ \A i \in 1..2 : ~InFlight(stTasks[i])
  /\ \E commitment \in DOMAIN stStore \cup {toString(Big(7))}, env \in AsmEnvs :
       stLast' = [ op |-> "prepareSpendProof", arg |-> commitment,
                   outcome |-> prepareSpendProof(stSession, stStore, commitment,
                                                 NoOptions, env) ]
  /\ UNCHANGED <<stSession, stStore, stDisk, stTasks, stBatch, stWritten, stLog, stOps,
                 stSessions, varsNotes, varsBucket, varsMerkle, varsAsm, varsCommit, varsBatch, varsOracle, varsSdk, varsLoad, varsSerial>>

\* a storeNote or markAsSpent call run alone, from its first to its last step
ApplyOp(store, key, opd, now) ==
  IF opd.op = "storeNote"
  THEN Put(store, opd.commitment,
           StoredNote(opd.note, encrypt(key, secretsJson(opd.note.secrets), opd.iv), now))
  ELSE IF opd.commitment \in DOMAIN store
  THEN Put(store, opd.commitment, Spend(store[opd.commitment], now))
  ELSE store

\* the stores the two calls of the batch leave when run one after the other
SequentialResults ==
  LET key == stSession.storageKey
  IN { ApplyOp(ApplyOp(stBatch.base, key, stBatch.ops[o[1]], t[1]), key, stBatch.ops[o[2]], t[2]) :
         o \in {<<1, 2>>, <<2, 1>>}, t \in (0..MaxClock) \X (0..MaxClock) }

RecordAt(store, commitment) ==
  IF commitment \in DOMAIN store THEN store[commitment] ELSE Null

\* two calls on the same commitment overlapped, a markAsSpent among them, and
\* both have completed
OverlappedOnOneKey ==
  /\ Len(stBatch.ops) = 2
  /\ \A i \in 1..2 : stTasks[i].pc = "done"
  /\ stBatch.ops[1].commitment = stBatch.ops[2].commitment
  /\ \E i \in 1..2 : stBatch.ops[i].op = "markAsSpent"

SerializedOnKey ==
  \E final \in SequentialResults :
    RecordAt(stStore, stBatch.ops[1].commitment) = RecordAt(final, stBatch.ops[1].commitment)

\* what holds: the manager that runs markAsSpent in one IndexedDB read-write
\* transaction serializes it with every overlapping call on the key
MarkAsSpentTransactional ==
  (stSession.backend = "idb" /\ OverlappedOnOneKey) => SerializedOnKey

\* C16: when a markAsSpent(c) overlaps a storeNote or a markAsSpent on the
\* same commitment c, the record left is the one the two calls leave when run
\* one after the other in some order: no write of either is lost.
C16_MarkAsSpentAtomicPerKey ==
  OverlappedOnOneKey => SerializedOnKey

\* the secrets of the note a commitment string belongs to
SecretsOf(commitment) ==
  (CHOOSE n \in StoreNotes : toString(n.metadata.commitment) = commitment).secrets

\* no storeNote ever wrote the key, in this session or an earlier one
NeverStored(commitment) ==
  /\ commitment \notin DOMAIN stStore
  /\ commitment \notin DOMAIN stDisk.idb
  /\ \A h \in Heads : commitment \notin DOMAIN stDisk.files[h]

SealedBy(stored) == stored.encryptedSecrets.ciphertext.sealedBy.hkdf

AssetOf(stored) ==
  IF "fmt" \in DOMAIN stored.metadata.assetId
  THEN stored.metadata.assetId.num ELSE stored.metadata.assetId

Decryptable == \A c \in DOMAIN stStore : ~DecryptNote(stSession.storageKey, stStore[c]).threw

\* the notes of the unspent records, of every asset or of one
UnspentNotes(assetId) ==
  { DecryptNote(stSession.storageKey, stStore[c]).value :
      c \in { k \in DOMAIN stStore :
                /\ ~stStore[k].spent
                /\ assetId # Undefined => AssetOf(stStore[k]) = assetId } }

\* what holds: without an asset id the unspent records are returned, and with
\* one those unspent records whose metadata holds the asset id as a string
GetUnspentNotesMatchesStrings ==
  (stLast.op = "getUnspentNotes" /\ stSession.pc = "ready" /\ Decryptable) =>
    /\ ~stLast.outcome.threw
    /\ stLast.arg = Undefined => stLast.outcome.value = UnspentNotes(Undefined)
    /\ stLast.arg # Undefined =>
         stLast.outcome.value =
           { n \in UnspentNotes(stLast.arg) : n.metadata.assetId = toString(stLast.arg) }

\* C19: getUnspentNotes() returns exactly the notes whose record has spent =
\* false, and getUnspentNotes(assetId) exactly those of them of that asset,
\* in every backend.
C19_GetUnspentNotesExact ==
  (stLast.op = "getUnspentNotes" /\ stSession.pc = "ready" /\ Decryptable) =>
    stLast.outcome = Return(UnspentNotes(stLast.arg))

\* the secrets, nullifiers and note ids of the notes
SecretValues ==
  UNION { {n.secrets.secret, n.secrets.nullifier, n.secrets.noteId} : n \in StoreNotes }

\* what holds: outside encryptedSecrets a record has the commitment, the
\* metadata and the spent flag and timestamps, and no value of them is a secret
RecordsHoldSecretsEncrypted ==
  \A c \in DOMAIN stStore :
    LET stored == stStore[c]
    IN /\ DOMAIN stored.metadata = {"assetId", "amount", "bucketAmount", "timestamp",
                                    "spent", "commitment", "nullifierHash"}
       /\ \A f \in {"assetId", "amount", "bucketAmount", "commitment", "nullifierHash"} :
            /\ stored.metadata[f] \notin SecretValues
            /\ "fmt" \in DOMAIN stored.metadata[f] => stored.metadata[f].num \notin SecretValues
       /\ stored.commitment.num \notin SecretValues

\* C20: no stored record and no log line holds a secret, a nullifier or a
\* note id, or a part of one, in plaintext.
C20_NoSecretInRecordsOrLogs ==
  /\ RecordsHoldSecretsEncrypted
  /\ \A l \in stLog :
       /\ l.shows \notin SecretValues
       /\ "hexDigitsOf" \in DOMAIN l.shows =>
            ~(l.shows.hexDigitsOf \in SecretValues /\ l.shows.first > 0)

\* the calls of the manager that read or write notes
StoreCalls == {"storeNote", "getNote", "getUnspentNotes", "markAsSpent"}

\* what holds: while the adapter (or database) or the key a call asks for is
\* null, the call throws a plain Error saying so and no call is in progress;
\* and no step taken while the adapter is null changes what the backend holds
CallsThrowWhileNull ==
  /\ \A op \in StoreCalls :
       (stLast.op = op /\ RequireInitialized(stSession, op).threw) =>
         /\ stLast.outcome = RequireInitialized(stSession, op)
         /\ stLast.outcome.error.name = "Error"
  /\ ~stSession.adapter => \A i \in 1..2 : stTasks[i] = Idle

NoWriteWhileNull == [][~stSession.adapter => stDisk' = stDisk]_vars

\* C21: a storeNote, getNote, getUnspentNotes or markAsSpent call made before
\* initialize has completed fails with the error StorageNotInitialized, and
\* while initialize has not completed no call is in progress that writes.
C21_CallsBeforeInitializeFail ==
  stSession.pc # "ready" =>
    /\ stLast.op \in StoreCalls =>
         /\ stLast.outcome.threw
         /\ stLast.outcome.error.code = STORAGE_NOT_INITIALIZED
    /\ \A i \in 1..2 : stTasks[i] = Idle

\* what holds: a rejected put of a database (the browser adapter, IndexedDB)
\* propagates, and the record is not in the store
DatabaseFailurePropagates ==
  \A i \in 1..2 :
    (stTasks[i].pc = "done" /\ stTasks[i].write = "failed" /\ stSession.backend # "node") =>
      stTasks[i].outcome = Throw(WriteFailure)

\* C22: a storeNote or markAsSpent call whose write the backend failed to
\* persist ends with an error: storeNote returns no commitment and markAsSpent
\* does not complete normally.
C22_BackendFailurePropagates ==
  \A i \in 1..2 :
    (stTasks[i].pc = "done" /\ stTasks[i].write = "failed") => stTasks[i].outcome.threw

\* the step in which the markAsSpent call of slot i ends
MarkAsSpentEnds(i) == stTasks[i].pc \in {"read", "tx"} /\ stTasks'[i].pc = "done"

\* across a step only spent and updatedAt of the record under commitment
\* change, and no record appears or disappears
OnlySpentChanges(commitment) ==
  /\ DOMAIN stStore' = DOMAIN stStore
  /\ \A k \in DOMAIN stStore \ {commitment} : stStore'[k] = stStore[k]
  /\ commitment \in DOMAIN stStore =>
       \A f \in {"commitment", "encryptedSecrets", "metadata", "createdAt"} :
         stStore'[commitment][f] = stStore[commitment][f]

\* what holds: markAsSpent changes only spent and updatedAt of the record it
\* read, which with IndexedDB transactions is still the record of the store
MarkAsSpentFrameOfRecordRead ==
  [][\A i \in 1..2 :
       MarkAsSpentEnds(i) =>
         LET commitment == stTasks[i].op.commitment
             unchanged == stTasks[i].stored = RecordAt(stStore, commitment)
         IN /\ stSession.backend = "idb" => unchanged
            /\ unchanged => OnlySpentChanges(commitment)]_vars

\* C30: the step that ends a markAsSpent(c) call changes only spent and
\* updatedAt of the record under c, leaves every other record as it is, and
\* creates no record when there is none under c.
C30_MarkAsSpentFrame ==
  [][\A i \in 1..2 : MarkAsSpentEnds(i) => OnlySpentChanges(stTasks[i].op.commitment)]_vars

\* prepareSpendProof found the record of its commitment marked spent
PreparedSpentRecord ==
  /\ stLast.op = "prepareSpendProof"
  /\ stLast.arg \in DOMAIN stStore
  /\ stStore[stLast.arg].spent

\* what the guard of prepareSpendProof reads is metadata.spent of the note
\* createNote made, which markAsSpent leaves as it is
MarkAsSpentLeavesMetadata ==
  \A c \in DOMAIN stStore : stStore[c].metadata.spent = FALSE

\* C31: once markNoteSpent(c) has completed, so that the record of c is
\* marked spent, prepareSpendProof(c) fails with 'Note already spent' and
\* returns no proof inputs
C31_SpentNoteNotPreparedAgain ==
  PreparedSpentRecord =>
    /\ stLast.outcome.threw
    /\ stLast.outcome.error.message = "Note already spent"

\* the record of c is marked spent before a step and, within the session,
\* missing or unspent after it
SpentCleared(c) ==
  /\ stSessions' = stSessions
  /\ c \in DOMAIN stStore
  /\ stStore[c].spent
  /\ ~(c \in DOMAIN stStore' /\ stStore'[c].spent)

\* the only step that clears the flag is the put of a storeNote of the same
\* commitment
SpentClearedOnlyByStoreNote ==
  [][\A c \in StoreKeys :
       SpentCleared(c) =>
         \E i \in 1..2 : /\ stTasks[i].pc = "encrypting"
                         /\ stTasks'[i].pc = "done"
                         /\ stTasks[i].op.commitment = c]_vars

\* C32: within a session a record marked spent stays marked spent, whatever
\* storeNote, markAsSpent, getNote or getUnspentNotes calls follow
C32_SpentIsMonotonic ==
  [][\A c \in StoreKeys : ~SpentCleared(c)]_vars

NextStore ==
  \/ Construct
  \/ InitializeBegin
  \/ InitializeStorageKey
  \/ Initialize
  \/ StoreNoteBegin
  \/ StoreNotePut
  \/ MarkAsSpentBegin
  \/ MarkAsSpentTxGet
  \/ MarkAsSpentPut
  \/ StoreNotePutFails
  \/ MarkAsSpentPutFails
  \/ GetNote
  \/ GetUnspentNotes
  \/ PrepareSpendProof

(***************************************************************************)
(* The batch calls: ProofInputsAssembler.assembleBatch and                 *)
(* MerkleClient.verifyProofsBatch.  Both map their elements to promises    *)
(* and await Promise.all of them; the promises settle in any order.        *)
(***************************************************************************)
MaxBatch == 2

\* Promise.all over promises of which those in order have settled, in that
\* order: rejected with the first rejection, fulfilled with the values by
\* index once all are fulfilled, pending until then
PromiseAllInSettlingOrder(done, order) ==
  IF \E k \in DOMAIN order : done[order[k]].threw
  THEN done[order[CHOOSE k \in DOMAIN order :
                     /\ done[order[k]].threw
                     /\ \A j \in 1..(k - 1) : ~done[order[j]].threw]]
  ELSE IF Len(order) = Len(done)
  THEN Return([k \in DOMAIN order |-> done[order[k]].value])
  ELSE NoCall

PromiseAll(done, order) ==
  IF \E k \in DOMAIN order : done[order[k]].threw
  THEN done[order[CHOOSE k \in DOMAIN order :
                     /\ done[order[k]].threw
                     /\ \A j \in 1..(k - 1) : ~done[order[j]].threw]]
  ELSE IF Len(order) = Len(done)
  THEN Return([i \in DOMAIN done |-> done[i].value])
  ELSE NoCall

BatchNotes == { n \in CoreNotes : ~n.metadata.spent }

BatchProofs ==
  { ProofOf(Dec(hashParent(Big(5), Big(11)))), ProofOf(Hex(hashParent(Big(5), Big(11)))),
    ProofOf(Dec(Big(0))) }

\* assembleBatch(notes, options) up to its await of Promise.all
AssembleBatch ==
  /\ btOp = "none"
  /\ \E len \in 0..MaxBatch :
       \E notes \in [1..len -> BatchNotes], envs \in [1..len -> AsmEnvs],
          options \in { o \in AsmOptions : o.recipient # Undefined } :
         /\ btItems' = [i \in 1..len |-> [note |-> notes[i], options |-> options,
                                          env |-> envs[i]]]
         /\ btDone' = [i \in 1..len |-> NoCall]
  /\ btOp' = "assembleBatch"
  /\ btOrder' = <<>>
  /\ btResult' = PromiseAll(btDone', btOrder')
  /\ UNCHANGED <<varsNotes, varsBucket, varsMerkle, varsAsm, varsCommit, varsStore, varsOracle, varsSdk, varsLoad, varsSerial>>

\* verifyProofsBatch(proofs) up to its await of Promise.all
VerifyProofsBatch ==
  /\ btOp = "none"
  /\ \E len \in 0..MaxBatch :
       \E proofs \in [1..len -> BatchProofs], failAts \in [1..len -> 0..1] :
         /\ btItems' = [i \in 1..len |-> [proof |-> proofs[i], failAt |-> failAts[i]]]
         /\ btDone' = [i \in 1..len |-> NoCall]
  /\ btOp' = "verifyProofsBatch"
  /\ btOrder' = <<>>
  /\ btResult' = PromiseAll(btDone', btOrder')
  /\ UNCHANGED <<varsNotes, varsBucket, varsMerkle, varsAsm, varsCommit, varsStore, varsOracle, varsSdk, varsLoad, varsSerial>>

\* the promise of one element settles, and with it perhaps that of the batch
BatchSettle ==
  /\ btOp # "none"
  /\ \E i \in DOMAIN btItems :
       /\ btDone[i] = NoCall
       /\ btDone' = [btDone EXCEPT ![i] =
            IF btOp = "assembleBatch"
            THEN assemble(btItems[i].note, btItems[i].options, btItems[i].env)
            ELSE verifyProof(btItems[i].proof, btItems[i].failAt)]
       /\ btOrder' = Append(btOrder, i)
  /\ btResult' = PromiseAll(btDone', btOrder')
  /\ UNCHANGED <<btOp, btItems, varsNotes, varsBucket, varsMerkle, varsAsm, varsCommit,
                 varsStore, varsOracle, varsSdk, varsLoad, varsSerial>>

NextBatch ==
  \/ AssembleBatch
  \/ VerifyProofsBatch
  \/ BatchSettle

AllSettled == Len(btOrder) = Len(btItems)

\* what holds: assembleBatch delivers the proof inputs of all notes, each at
\* the position of its note, or fails with the failure of one note
AssembleBatchAllOrNothing ==
  (btOp = "assembleBatch" /\ AllSettled) =>
    IF \E i \in DOMAIN btDone : btDone[i].threw
    THEN btResult.threw /\ \E i \in DOMAIN btDone : btResult = btDone[i]
    ELSE btResult = Return([i \in DOMAIN btItems |-> btDone[i].value])

\* C24: however the notes of an assembleBatch call fare, once all are
\* settled the proof inputs of every note whose assembly succeeded are
\* delivered to the caller at the position of that note.
C24_BatchSurvivesOneFailure ==
  (btOp = "assembleBatch" /\ AllSettled) =>
    \A i \in DOMAIN btItems :
      ~btDone[i].threw => (~btResult.threw /\ btResult.value[i] = btDone[i].value)

\* C26: verifyProofsBatch(proofs) settles once all verifications have, in
\* whatever order they do, with a list as long as proofs whose i-th element is
\* what verifyProof gives for proofs[i] on its own.
C26_VerifyProofsBatchByIndex ==
  btOp = "verifyProofsBatch" =>
    IF AllSettled
    THEN /\ ~btResult.threw
         /\ Len(btResult.value) = Len(btItems)
         /\ \A i \in DOMAIN btItems :
              btResult.value[i] = verifyProof(btItems[i].proof, btItems[i].failAt).value
    ELSE btResult = NoCall

C26_Witness ==
  /\ btOp = "verifyProofsBatch"
  /\ btOrder = <<2, 1>>
  /\ btResult = Return(<<TRUE, FALSE>>)

(***************************************************************************)
(* ShadeSDK: the hash callback given to CommitmentBuilder, which asks the   *)
(* local oracle and, when one is configured, the remote oracle too.         *)
(***************************************************************************)
MaxHashInputs == 3

HashInputs == UNION { [1..n -> {Big(1), Big(2)}] : n \in 1..MaxHashInputs }

\* what a remote oracle may answer a query with: the hash, the hash under
\* the other tag or under none, another value
RemoteAnswers(domain, inputs) ==
  { HashDomain(domain, inputs), HashDomain(3 - domain, inputs), Poseidon(inputs), Big(0) }

CrossCheckPrefersRemote(local, remote) ==
  IF remote.threw THEN remote ELSE Return(remote.value)

\* after `remote = await this.remotePoseidon.hash(inputs, domain)`:
\* if (remote !== local) throw ...; return local
CrossCheck(local, remote) ==
  IF remote.threw THEN remote
  ELSE IF remote.value # local
  THEN Throw(Error("Poseidon mismatch - remote service untrusted"))
  ELSE Return(local)

\* the callback up to its await of the remote oracle, or to its return when
\* none is configured
OracleHash ==
  /\ orPc = "idle"
  /\ \E domain \in {DOMAIN_NULLIFIER, DOMAIN_COMMITMENT}, inputs \in HashInputs,
        remotePoseidon \in BOOLEAN :
       /\ orQuery' = [ domain |-> domain, inputs |-> inputs,
                       remotePoseidon |-> remotePoseidon,
                       local |-> HashDomain(domain, inputs) ]
       /\ orPc' = IF remotePoseidon THEN "remote" ELSE "done"
       /\ orResult' = IF remotePoseidon THEN NoCall ELSE Return(HashDomain(domain, inputs))
  /\ orRemote' = <<>>
  /\ UNCHANGED <<varsNotes, varsBucket, varsMerkle, varsAsm, varsCommit, varsStore, varsBatch, varsSdk, varsLoad, varsSerial>>

\* the remote oracle answers or fails, and the callback ends
OracleHashRemote ==
  /\ orPc = "remote"
  /\ \E remote \in { Return(v) : v \in RemoteAnswers(orQuery.domain, orQuery.inputs) }
                   \cup {Throw(Error("Remote Poseidon unavailable"))} :
       /\ orRemote' = Append(orRemote, remote)
       /\ orResult' = CrossCheck(orQuery.local, remote)
  /\ orPc' = "done"
  /\ UNCHANGED <<orQuery, varsNotes, varsBucket, varsMerkle, varsAsm, varsCommit, varsStore,
                 varsBatch, varsSdk, varsLoad, varsSerial>>

NextOracle ==
  \/ OracleHash
  \/ OracleHashRemote

\* the remote oracle answered with a value other than the local one
OracleMismatch ==
  /\ orPc = "done"
  /\ orQuery.remotePoseidon
  /\ ~orRemote[1].threw
  /\ orRemote[1].value # HashDomain(orQuery.domain, orQuery.inputs)

\* C28: with a remote oracle configured, a hash call whose remote result
\* differs from the local one fails with the mismatch error after the one
\* request made to the remote oracle; and a hash value that is returned, with
\* or without a remote oracle, is the local result.
C28_OracleMismatchIsFatal ==
  /\ OracleMismatch =>
       /\ orResult = Throw(Error("Poseidon mismatch - remote service untrusted"))
       /\ Len(orRemote) = 1
  /\ (orPc = "done" /\ ~orResult.threw) =>
       orResult.value = HashDomain(orQuery.domain, orQuery.inputs)

C28_Witness ==
  /\ OracleMismatch
  /\ orQuery.domain = DOMAIN_COMMITMENT
  /\ orRemote[1] = Return(HashDomain(DOMAIN_NULLIFIER, orQuery.inputs))
  /\ orResult.threw

(***************************************************************************)
(* ShadeSDK (multi-wallet SDK of src/src/index.ts): initialize, destroy    *)
(* and the periodic sync timer; createNote, prepareSpendProof and          *)
(* markNoteSpent on the note the storage holds for one wallet and one      *)
(* commitment.  Each call runs from one await to the next in one step.     *)
(* storage.getNote returns the note last given to storage.storeNote or     *)
(* storage.updateNote.                                                     *)
(***************************************************************************)
MaxInitCalls == 3
MaxSyncs == 2

OtherVars == <<varsNotes, varsBucket, varsMerkle, varsAsm, varsCommit, varsStore, varsBatch,
               varsOracle, varsLoad, varsSerial>>

SdkNoteVars == <<sdkStored, sdkSpend>>

SdkLifeVars == <<sdkIsInitialized, sdkSyncInterval, sdkTimers, sdkInit, sdkDestroy,
                 sdkDestroyed, sdkOverlapped, sdkCalls, sdkSyncs, sdkLateSync>>

InitRunning(i) == sdkInit[i] \in {"storage", "health", "fullSync"}

DestroyRunning == sdkDestroy \in {"syncManager", "storage"}

\* storage.updateNote(walletAddress, note): the note replaces the one stored
\* for its wallet and commitment, and storage.getNote returns it from then on
updateNote(stored, updated) == updated

\* ensureInitialized()
ensureInitialized(isInitialized) ==
  IF ~isInitialized THEN Throw(Error("SDK not initialized. Call initialize() first."))
  ELSE Return(Undefined)

\* initialize() up to its first await: it returns at once when isInitialized
\* is set, and else awaits storage.initialize()
SdkInitialize(i) ==
  /\ sdkCalls < MaxInitCalls
  /\ sdkInit[i] \in {"idle", "done", "failed"}
  /\ sdkInit' = [sdkInit EXCEPT ![i] = IF sdkIsInitialized THEN "done" ELSE "storage"]
  /\ sdkCalls' = sdkCalls + 1
  /\ sdkDestroyed' = FALSE
  /\ sdkOverlapped' = (sdkOverlapped \/ DestroyRunning \/ \E j \in 1..2 : InitRunning(j))
  /\ UNCHANGED <<sdkIsInitialized, sdkSyncInterval, sdkTimers, sdkDestroy, sdkSyncs,
                 sdkLateSync, SdkNoteVars, OtherVars>>

\* initialize() after storage.initialize() or healthMonitor.initialize() has
\* settled: the next await, or the rejection of the call
SdkInitializeAwait(i) ==
  /\ sdkInit[i] \in {"storage", "health"}
  /\ \E ok \in BOOLEAN :
       sdkInit' = [sdkInit EXCEPT ![i] = IF ~ok THEN "failed"
                                         ELSE IF sdkInit[i] = "storage" THEN "health"
                                         ELSE "fullSync"]
  /\ UNCHANGED <<sdkIsInitialized, sdkSyncInterval, sdkTimers, sdkDestroy, sdkDestroyed,
                 sdkOverlapped, sdkCalls, sdkSyncs, sdkLateSync, SdkNoteVars, OtherVars>>

\* initialize() after syncManager.fullSync() has settled: setInterval, the
\* assignment of its handle to syncInterval, isInitialized = true
SdkInitializeSetInterval(i) ==
  /\ sdkInit[i] = "fullSync"
  /\ \E ok \in BOOLEAN :
       IF ok
       THEN LET timer == sdkCalls * 2 + i
            IN /\ sdkTimers' = sdkTimers \cup {timer}
               /\ sdkSyncInterval' = timer
               /\ sdkIsInitialized' = TRUE
               /\ sdkInit' = [sdkInit EXCEPT ![i] = "done"]
       ELSE /\ sdkInit' = [sdkInit EXCEPT ![i] = "failed"]
            /\ UNCHANGED <<sdkTimers, sdkSyncInterval, sdkIsInitialized>>
  /\ UNCHANGED <<sdkDestroy, sdkDestroyed, sdkOverlapped, sdkCalls, sdkSyncs, sdkLateSync,
                 SdkNoteVars, OtherVars>>

\* a timer set by setInterval and not cleared fires: its callback starts
\* syncManager.incrementalSync() and catches what it throws
SdkTimerFires ==
  /\ sdkSyncs < MaxSyncs
  /\ sdkTimers # {}
  /\ sdkSyncs' = sdkSyncs + 1
  /\ sdkLateSync' = (sdkLateSync \/ sdkDestroyed)
  /\ UNCHANGED <<sdkIsInitialized, sdkSyncInterval, sdkTimers, sdkInit, sdkDestroy,
                 sdkDestroyed, sdkOverlapped, sdkCalls, SdkNoteVars, OtherVars>>

\* destroy() up to its first await: clearInterval(this.syncInterval) when a
\* handle is held, then syncManager.destroy() is awaited
SdkDestroy ==
  /\ sdkDestroy \in {"idle", "done"}
  /\ sdkCalls > 0
  /\ sdkTimers' = IF sdkSyncInterval # 0 THEN sdkTimers \ {sdkSyncInterval} ELSE sdkTimers
  /\ sdkDestroy' = "syncManager"
  /\ sdkOverlapped' = (sdkOverlapped \/ \E j \in 1..2 : InitRunning(j))
  /\ sdkDestroyed' = FALSE
  /\ UNCHANGED <<sdkIsInitialized, sdkSyncInterval, sdkInit, sdkCalls, sdkSyncs, sdkLateSync,
                 SdkNoteVars, OtherVars>>

\* destroy() after syncManager.destroy() has resolved: storage.destroy() is
\* awaited; after that has resolved: isInitialized = false
SdkDestroyAwait ==
  /\ DestroyRunning
  /\ IF sdkDestroy = "syncManager"
     THEN /\ sdkDestroy' = "storage"
          /\ UNCHANGED <<sdkIsInitialized, sdkDestroyed>>
     ELSE /\ sdkDestroy' = "done"
          /\ sdkIsInitialized' = FALSE
          /\ sdkDestroyed' = TRUE
  /\ UNCHANGED <<sdkSyncInterval, sdkTimers, sdkInit, sdkOverlapped, sdkCalls, sdkSyncs,
                 sdkLateSync, SdkNoteVars, OtherVars>>

\* createNote(walletAddress, assetId, amount): noteEngine.createNote and
\* storage.storeNote
SdkCreateNote ==
  /\ sdkStored = NoNote
  /\ sdkSpend.pc # "assemble"
  /\ ~ensureInitialized(sdkIsInitialized).threw
  /\ sdkStored' = createNote(Big(1), Big(0), WeiBuckets[1], clock, TRUE).value
  /\ UNCHANGED <<sdkSpend, SdkLifeVars, OtherVars>>

\* what proofAssembler.assemble(pendingNote, options) may end with
SdkAssembleOutcomes ==
  { Return([assembled |-> TRUE]),
    Throw(Error("Commitment not found in Merkle tree")),
    Throw(Error("Invalid Merkle proof for note commitment")),
    Throw(Error("Merkle service error")) }

\* prepareSpendProof(walletAddress, commitment, options) up to its await of
\* proofAssembler.assemble: ensureInitialized, storage.getNote,
\* noteEngine.prepareForSpending, storage.updateNote
SdkPrepareSpendProof ==
  /\ sdkSpend.pc \in {"idle", "done"}
  /\ sdkCalls > 0
  /\ LET pendingNote == prepareForSpending(sdkStored, clock).outcome
     IN IF ensureInitialized(sdkIsInitialized).threw
        THEN /\ sdkSpend' = [ pc |-> "done", before |-> sdkStored, at |-> "ensureInitialized",
                              outcome |-> ensureInitialized(sdkIsInitialized) ]
             /\ sdkStored' = sdkStored
        ELSE IF sdkStored = NoNote
        THEN /\ sdkSpend' = [ pc |-> "done", before |-> sdkStored, at |-> "getNote",
                              outcome |-> Throw(Error("Note not found for wallet")) ]
             /\ sdkStored' = sdkStored
        ELSE IF pendingNote.threw
        THEN /\ sdkSpend' = [ pc |-> "done", before |-> sdkStored, at |-> "prepareForSpending",
                              outcome |-> pendingNote ]
             /\ sdkStored' = sdkStored
        ELSE /\ sdkSpend' = [ pc |-> "assemble", before |-> sdkStored,
                              pendingNote |-> pendingNote.value ]
             /\ sdkStored' = updateNote(sdkStored, pendingNote.value)
  /\ UNCHANGED <<SdkLifeVars, OtherVars>>

\* prepareSpendProof after proofAssembler.assemble has settled
SdkPrepareSpendProofAssemble ==
  /\ sdkSpend.pc = "assemble"
  /\ \E proofInputs \in SdkAssembleOutcomes :
       sdkSpend' = [ pc |-> "done", before |-> sdkSpend.before, at |-> "assemble",
                     outcome |-> IF proofInputs.threw THEN proofInputs
                                 ELSE Return([ note |-> sdkSpend.pendingNote,
                                               proofInputs |-> proofInputs.value ]) ]
  /\ UNCHANGED <<sdkStored, SdkLifeVars, OtherVars>>

\* markNoteSpent(walletAddress, commitment): storage.getNote,
\* noteEngine.markSpent, storage.updateNote
SdkMarkNoteSpent ==
  /\ sdkStored # NoNote
  /\ sdkSpend.pc # "assemble"
  /\ ~ensureInitialized(sdkIsInitialized).threw
  /\ ~markSpent(sdkStored, clock).outcome.threw
  /\ sdkStored' = updateNote(sdkStored, markSpent(sdkStored, clock).outcome.value)
  /\ UNCHANGED <<sdkSpend, SdkLifeVars, OtherVars>>

NextSdk ==
  \/ \E i \in 1..2 : SdkInitialize(i)
  \/ \E i \in 1..2 : SdkInitializeAwait(i)
  \/ \E i \in 1..2 : SdkInitializeSetInterval(i)
  \/ SdkTimerFires
  \/ SdkDestroy
  \/ SdkDestroyAwait
  \/ SdkCreateNote
  \/ SdkPrepareSpendProof
  \/ SdkPrepareSpendProofAssemble
  \/ SdkMarkNoteSpent

\* the step in which prepareSpendProof fails at the assembly of the inputs
AssemblyFails ==
  /\ sdkSpend.pc = "assemble"
  /\ sdkSpend'.pc = "done"
  /\ sdkSpend'.outcome.threw

\* when the assembly fails the stored note is the PENDING_SPEND note that
\* prepareSpendProof had stored before the assembly
AssemblyFailureLeavesPending ==
  [][AssemblyFails => /\ sdkStored' = sdkSpend.pendingNote
                      /\ sdkStored'.state = PENDING_SPEND]_vars

\* a prepareSpendProof that finds the stored note in PENDING_SPEND fails with
\* NoteInvalidState
PendingNoteNotPreparedAgain ==
  (sdkSpend.pc = "done" /\ sdkSpend.before # NoNote /\ sdkSpend.before.state = PENDING_SPEND
     /\ sdkSpend.at # "ensureInitialized")
    => ThrewInvalidState(sdkSpend)

\* C34: when the assembly of the proof inputs fails inside prepareSpendProof,
\* the stored note is the note that was stored before the call
C34_AssemblyFailureRestoresNote ==
  [][AssemblyFails => sdkStored' = sdkSpend.before]_vars

\* what C37 asks of the timers: at most one is active, after destroy() has
\* completed none is, and no incrementalSync was started then
OneTimerAndNoneAfterDestroy ==
  /\ Cardinality(sdkTimers) <= 1
  /\ sdkDestroyed => sdkTimers = {}
  /\ ~sdkLateSync

\* it holds as long as no initialize() or destroy() was called while another
\* initialize() or destroy() was running
TimersOfSequentialCalls == ~sdkOverlapped => OneTimerAndNoneAfterDestroy

\* C37: at most one sync timer is active, also when initialize() is called
\* several times or concurrently; after destroy() has completed no timer is
\* active and no incrementalSync is started
C37_AtMostOneSyncTimer == OneTimerAndNoneAfterDestroy

(***************************************************************************)
(* The start of a Node session: new NodeStorageAdapter(walletSignature)    *)
(* starts initFileSystem() and does not await it, initialize() awaits a    *)
(* timer of 100 ms.  Nothing in the code orders the completion of the four *)
(* dynamic imports of initFileSystem() and loadFromFile() with the timer:  *)
(* both orders are steps here.                                             *)
(***************************************************************************)
MaxPuts == 2

LoadSignature == [head |-> "0xaaaa", tail |-> "1"]

LoadOthers == <<varsNotes, varsBucket, varsMerkle, varsAsm, varsCommit, varsStore, varsBatch,
                varsOracle, varsSdk, varsSerial>>

\* the record storeNote builds for a note
LoadRecord(n) ==
  StoredNote(n, encrypt(deriveStorageKey(LoadSignature), secretsJson(n.secrets), 1), 0)

\* loadFromFile() once its import has resolved: the Map is replaced by the
\* entries of the file when the file exists, and left alone when it does not
loadFromFile(data, file) == IF file.exists THEN file.content ELSE data

\* saveToFile() once its import has resolved: writeFileSync(this.filePath, ...)
\* throws while filePath is '' and the error is caught and logged
saveToFile(data, file, filePathSet) ==
  IF filePathSet THEN [exists |-> TRUE, content |-> JsonFile(data)] ELSE file

\* an earlier session of the same wallet left a notes file
LdEarlierSession ==
  /\ ldManager = "constructed"
  /\ ~ldFile.exists
  /\ \E n \in StoreNotes \cup {Null} :
       ldFile' = [ exists |-> TRUE,
                   content |-> IF n = Null THEN EmptyStore
                               ELSE JsonFile(Put(EmptyStore, toString(n.metadata.commitment),
                                                 LoadRecord(n))) ]
  /\ UNCHANGED <<ldManager, ldFs, ldFilePath, ldData, ldPut, ldWritten, ldLate, ldPuts, ldLast,
                 LoadOthers>>

\* initialize(walletSignature) up to its await of the timer: the adapter is
\* constructed, its constructor calls initFileSystem(), which runs up to its
\* first await import
LdInitialize ==
  /\ ldManager = "constructed"
  /\ ldManager' = "timer"
  /\ ldFs' = "importFs"
  /\ UNCHANGED <<ldFilePath, ldData, ldFile, ldPut, ldWritten, ldLate, ldPuts, ldLast,
                 LoadOthers>>

\* initFileSystem() after one of its imports has resolved; after the third,
\* notesDir and filePath are set and loadFromFile() runs up to its import
LdInitFileSystem ==
  /\ ldFs \in {"importFs", "importPath", "importOs"}
  /\ ldFs' = CASE ldFs = "importFs" -> "importPath"
               [] ldFs = "importPath" -> "importOs"
               [] ldFs = "importOs" -> "loadFromFile"
  /\ ldFilePath' = (ldFilePath \/ ldFs = "importOs")
  /\ UNCHANGED <<ldManager, ldData, ldFile, ldPut, ldWritten, ldLate, ldPuts, ldLast,
                 LoadOthers>>

\* loadFromFile() after its import has resolved
LdLoadFromFile ==
  /\ ldFs = "loadFromFile"
  /\ ldFs' = "done"
  /\ ldData' = loadFromFile(ldData, ldFile)
  /\ UNCHANGED <<ldManager, ldFilePath, ldFile, ldPut, ldWritten, ldLate, ldPuts, ldLast,
                 LoadOthers>>

\* the timer of initialize() fires and initialize() resolves
LdTimer ==
  /\ ldManager = "timer"
  /\ ldManager' = "ready"
  /\ ldLate' = (ldFs # "done")
  /\ UNCHANGED <<ldFs, ldFilePath, ldData, ldFile, ldPut, ldWritten, ldPuts, ldLast,
                 LoadOthers>>

\* storeNote(note) after initialize() has resolved, up to its await of encrypt
LdStoreNote ==
  /\ ldManager = "ready"
  /\ ldPut.pc \in {"idle", "done"}
  /\ ldPuts < MaxPuts
  /\ \E n \in StoreNotes :
       ldPut' = [pc |-> "encrypting", commitment |-> toString(n.metadata.commitment),
                 stored |-> LoadRecord(n)]
  /\ ldPuts' = ldPuts + 1
  /\ UNCHANGED <<ldManager, ldFs, ldFilePath, ldData, ldFile, ldWritten, ldLate, ldLast,
                 LoadOthers>>

\* storeNote after encrypt: adapter.put sets the key in the Map and runs
\* saveToFile() up to its import
LdPut ==
  /\ ldPut.pc = "encrypting"
  /\ ldPut' = [ldPut EXCEPT !.pc = "saveToFile"]
  /\ ldData' = Put(ldData, ldPut.commitment, ldPut.stored)
  /\ ldWritten' = ldWritten \cup {ldPut.commitment}
  /\ UNCHANGED <<ldManager, ldFs, ldFilePath, ldFile, ldLate, ldPuts, ldLast, LoadOthers>>

\* saveToFile() after its import has resolved; put and storeNote return
LdSaveToFile ==
  /\ ldPut.pc = "saveToFile"
  /\ ldPut' = [ldPut EXCEPT !.pc = "done"]
  /\ ldFile' = saveToFile(ldData, ldFile, ldFilePath)
  /\ UNCHANGED <<ldManager, ldFs, ldFilePath, ldData, ldWritten, ldLate, ldPuts, ldLast,
                 LoadOthers>>

\* getNote(commitment) after initialize() has resolved, of a commitment whose
\* storeNote has returned
LdGetNote ==
  /\ ldManager = "ready"
  /\ ldPut.pc = "done"
  /\ ldLast' = [ op |-> "getNote", arg |-> ldPut.commitment,
                 outcome |-> getNote(ldData, deriveStorageKey(LoadSignature),
                                     ldPut.commitment) ]
  /\ UNCHANGED <<ldManager, ldFs, ldFilePath, ldData, ldFile, ldPut, ldWritten, ldLate, ldPuts,
                 LoadOthers>>

NextLoad ==
  \/ LdEarlierSession
  \/ LdInitialize
  \/ LdInitFileSystem
  \/ LdLoadFromFile
  \/ LdTimer
  \/ LdStoreNote
  \/ LdPut
  \/ LdSaveToFile
  \/ LdGetNote

\* every key put since initialize() resolved is in the Map, and getNote of a
\* commitment whose storeNote has returned returns its note
WrittenRecordsKept ==
  /\ \A c \in ldWritten : c \in DOMAIN ldData
  /\ ldLast.op = "getNote" => /\ ~ldLast.outcome.threw
                              /\ ldLast.outcome.value # Null

\* the records are kept in the sessions in which the file was loaded before
\* the timer fired
LoadInTimeKeepsRecords == ~ldLate => WrittenRecordsKept

\* while filePath is not set, nothing is written to the notes file
NoSaveBeforeFilePath == [][~ldFilePath => ldFile' = ldFile \/ LdEarlierSession]_vars

\* C38: once initialize() has resolved in a Node session, loadFromFile has
\* finished; a record storeNote writes after that stays in the Map and getNote
\* returns it
C38_LoadFinishedWhenInitialized ==
  /\ ldManager = "ready" => ldFs = "done"
  /\ WrittenRecordsKept

(***************************************************************************)
(* NoteEngine.serializeNote and deserializeNote.  A JSON text is the tree  *)
(* of its values: a string value holds its text (a numeral Dec(v) or       *)
(* Hex(v), the ISO form of a date, or other text Str(t)), a number value   *)
(* its number; an absent property is Undefined.  The fields of a note are  *)
(* visited with the types the Note interface declares.                     *)
(***************************************************************************)
JsonString(text) == [json |-> "string", text |-> text]
JsonNumber(n) == [json |-> "number", value |-> n]

\* Date.prototype.toJSON, which JSON.stringify calls before the replacer, and
\* new Date(string) of such a string
toISOString(date) == [fmt |-> "iso", ms |-> date]
NewDate(value) == IF "fmt" \in DOMAIN value /\ value.fmt = "iso" THEN value.ms ELSE value

\* what JSON.stringify with the replacer of serializeNote writes for a bigint,
\* a Date, a string, a number, and a property (absent when undefined)
ReplaceBigint(value) == JsonString(toString(value))
ReplaceDate(value) == JsonString(toISOString(value))
ReplaceString(value) == JsonString(value)
ReplaceNumber(value) == JsonNumber(value)
Property(value, replaced) == IF value = Undefined THEN Undefined ELSE replaced

\* /^\d+n?$/.test(value) on the text of a string
IsDigits(text) ==
  /\ "fmt" \in DOMAIN text
  /\ text.fmt = "dec"
  /\ ~("neg" \in DOMAIN text.num /\ text.num.neg)

\* the reviver of deserializeNote on one parsed value
Reviver(json) ==
  IF json = Undefined THEN Undefined
  ELSE IF json.json = "string" /\ IsDigits(json.text)
  THEN BigInt(json.text).value
  ELSE IF json.json = "string" THEN json.text
  ELSE json.value

\* if (parsed...) parsed... = new Date(parsed...)
ReviveDate(json) == IF Reviver(json) = Undefined THEN Undefined ELSE NewDate(Reviver(json))

\* serializeNote(note)
serializeNote(n) ==
  [ metadata |->
      [ commitment |-> ReplaceBigint(n.metadata.commitment),
        nullifier |-> ReplaceBigint(n.metadata.nullifier),
        secret |-> ReplaceBigint(n.metadata.secret),
        assetId |-> ReplaceBigint(n.metadata.assetId),
        amount |-> ReplaceBigint(n.metadata.amount),
        bucketAmount |-> ReplaceBigint(n.metadata.bucketAmount),
        createdAt |-> ReplaceDate(n.metadata.createdAt),
        updatedAt |-> ReplaceDate(n.metadata.updatedAt),
        version |-> ReplaceNumber(n.metadata.version),
        depositBlock |-> Property(n.metadata.depositBlock,
                                  ReplaceNumber(n.metadata.depositBlock)),
        depositTxHash |-> Property(n.metadata.depositTxHash,
                                   ReplaceString(n.metadata.depositTxHash)) ],
    state |-> ReplaceString(Str(n.state)),
    merklePath |->
      IF n.merklePath = Undefined THEN Undefined
      ELSE [ root |-> ReplaceBigint(n.merklePath.root),
             path |-> [i \in DOMAIN n.merklePath.path |-> ReplaceBigint(n.merklePath.path[i])],
             index |-> ReplaceNumber(n.merklePath.index),
             blockNumber |-> ReplaceNumber(n.merklePath.blockNumber) ],
    withdrawalData |->
      IF n.withdrawalData = Undefined THEN Undefined
      ELSE [ recipient |-> ReplaceString(n.withdrawalData.recipient),
             relayerFee |-> ReplaceBigint(n.withdrawalData.relayerFee),
             protocolFee |-> ReplaceBigint(n.withdrawalData.protocolFee),
             timestamp |-> ReplaceDate(n.withdrawalData.timestamp),
             proof |-> Property(n.withdrawalData.proof,
                                [i \in DOMAIN n.withdrawalData.proof |->
                                   ReplaceString(n.withdrawalData.proof[i])]) ],
    recoveryId |-> Property(n.recoveryId, ReplaceString(n.recoveryId)) ]

\* deserializeNote(data)
deserializeNote(data) ==
  [ metadata |->
      [ commitment |-> Reviver(data.metadata.commitment),
        nullifier |-> Reviver(data.metadata.nullifier),
        secret |-> Reviver(data.metadata.secret),
        assetId |-> Reviver(data.metadata.assetId),
        amount |-> Reviver(data.metadata.amount),
        bucketAmount |-> Reviver(data.metadata.bucketAmount),
        createdAt |-> ReviveDate(data.metadata.createdAt),
        updatedAt |-> ReviveDate(data.metadata.updatedAt),
        version |-> Reviver(data.metadata.version),
        depositBlock |-> Reviver(data.metadata.depositBlock),
        depositTxHash |-> Reviver(data.metadata.depositTxHash) ],
    state |-> LET state == Reviver(data.state)
              IN IF "string" \in DOMAIN state THEN state.string ELSE state,
    merklePath |->
      IF data.merklePath = Undefined THEN Undefined
      ELSE [ root |-> Reviver(data.merklePath.root),
             path |-> [i \in DOMAIN data.merklePath.path |-> Reviver(data.merklePath.path[i])],
             index |-> Reviver(data.merklePath.index),
             blockNumber |-> Reviver(data.merklePath.blockNumber) ],
    withdrawalData |->
      IF data.withdrawalData = Undefined THEN Undefined
      ELSE [ recipient |-> Reviver(data.withdrawalData.recipient),
             relayerFee |-> Reviver(data.withdrawalData.relayerFee),
             protocolFee |-> Reviver(data.withdrawalData.protocolFee),
             timestamp |-> ReviveDate(data.withdrawalData.timestamp),
             proof |-> IF data.withdrawalData.proof = Undefined THEN Undefined
                       ELSE [i \in DOMAIN data.withdrawalData.proof |->
                               Reviver(data.withdrawalData.proof[i])] ],
    recoveryId |-> Reviver(data.recoveryId) ]

\* notes of the Note interface: a created or recovered note in any state, with
\* and without Merkle path, withdrawal data and recovery id
SerialTexts == {Undefined, Str("0xab12"), Dec(Big(42))}

SerialNotes ==
  { [ metadata |-> NewNote(Big(1), Big(0), WeiBuckets[1], 1, st, depositBlock,
                           depositTxHash).metadata,
      state |-> st,
      merklePath |-> merklePath,
      withdrawalData |-> withdrawalData,
      recoveryId |-> recoveryId ] :
      st \in {UNSPENT, PENDING_SPEND, RECOVERED},
      depositBlock \in {Undefined, Num(7)},
      depositTxHash \in SerialTexts,
      recoveryId \in SerialTexts,
      merklePath \in { Undefined,
                       [root |-> Big(9), path |-> <<Big(3), Big(0)>>, index |-> 0,
                        blockNumber |-> 7] },
      withdrawalData \in
        { Undefined,
          [recipient |-> Str("0xcd34"), relayerFee |-> Big(2), protocolFee |-> Big(0),
           timestamp |-> 1, proof |-> Undefined],
          [recipient |-> Str("0xcd34"), relayerFee |-> Big(2), protocolFee |-> Big(0),
           timestamp |-> 1, proof |-> <<Dec(Big(5)), Str("groth16")>>] } }

SerOthers == <<varsNotes, varsBucket, varsMerkle, varsAsm, varsCommit, varsStore, varsBatch,
               varsOracle, varsSdk, varsLoad>>

\* serializeNote(note) is called
SerializeNote ==
  /\ \E n \in SerialNotes :
       /\ serNote' = n
       /\ serData' = serializeNote(n)
  /\ serParsed' = NoNote
  /\ UNCHANGED SerOthers

\* deserializeNote is called with the string serializeNote returned
DeserializeNote ==
  /\ serData # NoNote
  /\ serParsed = NoNote
  /\ serParsed' = deserializeNote(serData)
  /\ UNCHANGED <<serNote, serData, SerOthers>>

NextSerial ==
  \/ SerializeNote
  \/ DeserializeNote

\* the fields of the note whose values are strings
StringFieldsOf(n) ==
  {n.metadata.depositTxHash, n.recoveryId}
    \cup (IF n.withdrawalData = Undefined THEN {}
          ELSE {n.withdrawalData.recipient}
                 \cup (IF n.withdrawalData.proof = Undefined THEN {}
                       ELSE {n.withdrawalData.proof[i] : i \in DOMAIN n.withdrawalData.proof}))

NoDigitStrings(n) == \A s \in StringFieldsOf(n) \ {Undefined} : ~IsDigits(s)

\* the round trip returns the note when none of its strings consists of digits
RoundTripWithoutDigitStrings ==
  (serParsed # NoNote /\ NoDigitStrings(serNote)) => serParsed = serNote

\* bigint, Date and number fields always come back as they were
RoundTripOfBigintsDatesNumbers ==
  serParsed # NoNote =>
    /\ [serParsed.metadata EXCEPT !.depositTxHash = Undefined]
         = [serNote.metadata EXCEPT !.depositTxHash = Undefined]
    /\ serParsed.state = serNote.state
    /\ serParsed.merklePath = serNote.merklePath
    /\ serNote.withdrawalData # Undefined =>
         /\ serParsed.withdrawalData.relayerFee = serNote.withdrawalData.relayerFee
         /\ serParsed.withdrawalData.protocolFee = serNote.withdrawalData.protocolFee
         /\ serParsed.withdrawalData.timestamp = serNote.withdrawalData.timestamp

\* C39: deserializeNote(serializeNote(note)) equals note
C39_SerializationRoundTrip == serParsed # NoNote => serParsed = serNote

(***************************************************************************)
(* Specifications                                                          *)
(***************************************************************************)
Spec == Init /\ [][NextNotes]_vars

SpecBucket == Init /\ [][NextBucket]_vars

SpecMerkle == Init /\ [][NextMerkle]_vars

SpecAssemble == Init /\ [][NextAsm]_vars

SpecCommit == Init /\ [][NextCommit]_vars

SpecStore == Init /\ [][NextStore]_vars

SpecBatch == Init /\ [][NextBatch]_vars

SpecOracle == Init /\ [][NextOracle]_vars

SpecSdk == Init /\ [][NextSdk]_vars

SpecLoad == Init /\ [][NextLoad]_vars

SpecSerial == Init /\ [][NextSerial]_vars
====
